---------------------------- MODULE Spec2Model ----------------------------
(***************************************************************************)
(* A model of PyGeodesy's reference-ellipsoid engine (pygeodesy/ellipsoids) *)
(* and of the Universal Polar Stereographic projection built on it          *)
(* (pygeodesy/ups).                                                         *)
(*                                                                          *)
(* Numbers.  Python floats are modelled as fixed-point numbers: the integer *)
(* x stands for the real x / SCALE.  Every product and quotient is rounded  *)
(* to the nearest representable value, as IEEE arithmetic does.  Machine    *)
(* epsilon EPS is a small number of units of the last place, so that values *)
(* below EPS that are not zero exist, as they do for floats.                *)
(* An optional value (Python's None or a value) is the empty sequence or a  *)
(* one-element sequence.                                                    *)
(***************************************************************************)
EXTENDS Integers, Sequences, FiniteSets, TLC

\* ------------------------------------------------------------- numbers

\* Units per 1.0 of the fixed-point representation.
SCALE == 1000

\* pygeodesy.interns.EPS, sys.float_info.epsilon, in units of 1/SCALE.
EPS == 2

\* pygeodesy.interns.EPS1 = 1 - EPS
EPS1 == SCALE - EPS

Abs(x) == IF x < 0 THEN -x ELSE x

Max(x, y) == IF x < y THEN y ELSE x

Min(x, y) == IF x < y THEN x ELSE y

Sgn(x) == IF x < 0 THEN -1 ELSE IF x > 0 THEN 1 ELSE 0

\* x / y rounded to the nearest integer, halves away from zero (y # 0).
RDiv(x, y) == Sgn(x) * Sgn(y) * ((2 * Abs(x) + Abs(y)) \div (2 * Abs(y)))

\* The float product x * y.
Mul(x, y) == RDiv(x * y, SCALE)

\* The float quotient x / y.
Div(x, y) == RDiv(x * SCALE, y)

\* x ** 2
Sq(x) == Mul(x, x)

\* The integer 1.0, 2.0
One == SCALE

Two == 2 * SCALE

RECURSIVE ISqrtFrom(_, _)
\* Newton's iteration for the integer square root of n, from the guess g >= isqrt(n).
ISqrtFrom(n, g) ==
    LET h == (g + n \div g) \div 2
    IN  IF h >= g THEN g ELSE ISqrtFrom(n, h)

\* floor(sqrt(n)) for n >= 0
ISqrt(n) == IF n <= 0 THEN 0 ELSE ISqrtFrom(n, n)

\* math.sqrt of the fixed-point x >= 0, rounded to nearest.
Sqrt(x) ==
    LET s == ISqrt(x * SCALE)
    IN  IF (s + 1) * (s + 1) - x * SCALE <= x * SCALE - s * s THEN s + 1 ELSE s

\* _TOL = sqrt(0.1 * EPS); 0.1 * EPS is below the resolution, so the root is
\* taken of the exact product: sqrt(EPS / (10 * SCALE)) * SCALE.
TOL == ISqrt((EPS * SCALE) \div 10)

\* pygeodesy.interns._1_EPS = 1 / EPS
EPS_1 == Div(One, EPS)

\* Python's None and a value, as optional values.
None == << >>

Some(x) == << x >>

Val(o) == o[1]

\* Python's truth value of an optional number: None and 0 are false.
Truthy(o) == o # None /\ Val(o) # 0


\* pygeodesy.interns.INF, a value beyond every finite one of the model.
INF == SCALE * SCALE * SCALE

\* ------------------------------------------- flattening conversions

\* True for a spherical or an invalid flattening f.
_spherical(f) == Abs(f) < EPS \/ f > EPS1

\* True for a spherical or an invalid inverse flattening f_.
_spherical_(f_) == Abs(f_) < EPS \/ Abs(f_) > EPS_1

\* True for spherical or invalid radii a and b.
_spherical_a_b(a, b) == a < EPS \/ b < EPS \/ Abs(a - b) < EPS

\* e2 = 1 - (b / a)**2
a_b2e2(a, b) == IF _spherical_a_b(a, b) THEN 0 ELSE One - Sq(Div(b, a))

\* e22 = (a / b)**2 - 1
a_b2e22(a, b) == IF _spherical_a_b(a, b) THEN 0 ELSE Sq(Div(a, b)) - One

\* e32 = (a**2 - b**2) / (a**2 + b**2)
a_b2e32(a, b) ==
    LET a2 == Sq(a)
        b2 == Sq(b)
    IN  IF _spherical_a_b(a2, b2) THEN 0 ELSE Div(a2 - b2, a2 + b2)

\* f = (a - b) / a
a_b2f(a, b) ==
    LET f == IF _spherical_a_b(a, b) THEN 0 ELSE Div(a - b, a)
    IN  IF _spherical(f) THEN 0 ELSE f

\* b = a * (1 - f)
a_f2b(a, f) == IF _spherical(f) THEN a ELSE Mul(a, One - f)

\* b = a * (f_ - 1) / f_
a_f_2b(a, f_) == IF _spherical_(f_) THEN a ELSE Div(Mul(a, f_ - One), f_)

\* e2 = f * (2 - f)
f2e2(f) == IF _spherical(f) THEN 0 ELSE Mul(f, Two - f)

\* e22 = f * (2 - f) / (1 - f)**2
f2e22(f) ==
    LET t == Sq(One - f)
    IN  IF t < EPS THEN INF ELSE Div(f2e2(f), t)

\* e32 = e2 / (2 - e2)
f2e32(f) == LET e2 == f2e2(f) IN Div(e2, Two - e2)

\* f_ = 1 / f
f2f_(f) ==
    LET f_ == IF _spherical(f) THEN 0 ELSE Div(One, f)
    IN  IF _spherical_(f_) THEN 0 ELSE f_

\* ------------------------------------------------------- Ellipsoid

\* units.Radius_ and units.Float_ with low=EPS accept a value not below EPS.
Radius_(x) == x >= EPS

\* units.Float_ with high=EPS1 accepts a value not above EPS1.
Float_high(f) == f <= EPS1

\* The class attributes of a new Ellipsoid: no derived value is cached.
Ellipsoid == [a |-> 0, b |-> 0, f |-> 0, f_ |-> 0, name |-> "",
              _b_a |-> None, _b2_a2 |-> None, _e2 |-> None, _e12 |-> None,
              _e22 |-> None, _e32 |-> None, _n |-> None, _R1 |-> None, _R3 |-> None,
              _AlphaKs |-> None, _BetaKs |-> None, _KsOrder |-> 8]

\* What a method or a property gives: an exception raised (err # ""), or a
\* value, and the object with the caches the call has filled.
Ret(o, v) == [err |-> "", val |-> v, obj |-> o]

Raise(e, o) == [err |-> e, val |-> 0, obj |-> o]

\* Ellipsoid._assert(val, eps, f0, name=v): v, or f0 on a sphere, unless v and
\* val differ by more than eps.
_assert(o, val, v, eps, f0) ==
    IF Abs(v - val) > eps
    THEN Raise("AssertionError", o)
    ELSE Ret(o, IF o.f # 0 THEN v ELSE f0)

\* A property that is computed once: the value r.val is kept in the cache
\* slot of the object, unless its computation raised.
_cached(r, slot) ==
    IF r.err # "" THEN r
    ELSE Ret([r.obj EXCEPT ![slot] = Some(r.val)], r.val)

\* Ellipsoid.b_a, the ratio b / a
b_a(o) ==
    IF o._b_a # None THEN Ret(o, Val(o._b_a))
    ELSE _cached(_assert(o, Div(o.b, o.a), One - o.f, TOL, One), "_b_a")

\* Ellipsoid.b2_a2, the ratio (b / a)**2
b2_a2(o) ==
    IF o._b2_a2 # None THEN Ret(o, Val(o._b2_a2))
    ELSE IF o.f # 0
         THEN _cached([b_a(o) EXCEPT !.val = Sq(@)], "_b2_a2")
         ELSE _cached(Ret(o, One), "_b2_a2")

\* Ellipsoid.e2, the 1st eccentricity squared
e2(o) ==
    IF o._e2 # None THEN Ret(o, Val(o._e2))
    ELSE _cached(_assert(o, a_b2e2(o.a, o.b), f2e2(o.f), TOL, 0), "_e2")

\* Ellipsoid.e12 = 1 - e2, given what self.e2 returned, q.
_e12(f, q) ==
    IF q.err # "" THEN q
    ELSE _cached(_assert(q.obj, Sq(One - f), One - q.val, TOL, One), "_e12")

\* Ellipsoid.e12 = 1 - e2
e12(o) ==
    IF o._e12 # None THEN Ret(o, Val(o._e12))
    ELSE _e12(o.f, e2(o))

\* Ellipsoid.e22, the 2nd eccentricity squared
e22(o) ==
    IF o._e22 # None THEN Ret(o, Val(o._e22))
    ELSE _cached(_assert(o, a_b2e22(o.a, o.b), f2e22(o.f), TOL, 0), "_e22")

\* Ellipsoid.e32, the 3rd eccentricity squared
e32(o) ==
    IF o._e32 # None THEN Ret(o, Val(o._e32))
    ELSE _cached(_assert(o, a_b2e32(o.a, o.b), f2e32(o.f), TOL, 0), "_e32")

\* abs() of a cache slot: a TypeError while the slot holds None.
AbsSlot(o, slot) == IF slot = None THEN Raise("TypeError", o) ELSE Ret(o, Abs(Val(slot)))

\* Ellipsoid.e2abs = abs(self._e2)
e2abs(o) == AbsSlot(o, o._e2)

\* Ellipsoid.e22abs = abs(self._e22)
e22abs(o) == AbsSlot(o, o._e22)

\* Ellipsoid.e32abs = abs(self._e32)
e32abs(o) == AbsSlot(o, o._e32)

\* Ellipsoid.eccentricity2nd2 = e2
eccentricity2nd2(o) == e2(o)

\* x**3
Cube(x) == Mul(Sq(x), x)

RECURSIVE CbrtFrom(_, _, _)
\* The largest r in lo..hi whose cube is x at most, by bisection
CbrtFrom(x, lo, hi) ==
    IF lo >= hi THEN lo
    ELSE IF Cube((lo + hi + 1) \div 2) <= x THEN CbrtFrom(x, (lo + hi + 1) \div 2, hi)
    ELSE CbrtFrom(x, lo, (lo + hi) \div 2)

\* The nearer root of r and r + 1.
CbrtNear(x, r) == IF Cube(r + 1) - x < x - Cube(r) THEN r + 1 ELSE r

\* The roots looked for end here: the cube of 8 is 512, and the cubes of
\* the radii of the model are below.
CBRT_MAX == 8 * One

\* fmath.cbrt(x) of an x >= 0; the root is below x + 1.
cbrt(x) == CbrtNear(x, CbrtFrom(x, 0, Min(x + One, CBRT_MAX)))

\* Ellipsoid._f_late(_f_a_b): _f_a_b(a, b) on an oblate ellipsoid,
\* _f_a_b(b, a) on a prolate one, a on a sphere.
_f_late(o, _f_a_b(_, _)) ==
    IF o.f > 0 THEN _f_a_b(o.a, o.b)
    ELSE IF o.f < 0 THEN _f_a_b(o.b, o.a)
    ELSE o.a

\* R1._R1(a, b) = fsum_(a, a, b) / 3
_R1(a, b) == RDiv(a + a + b, 3)

\* R3._R3(a, b) = cbrt(a**2 * b)
_R3(a, b) == cbrt(Mul(Sq(a), b))

\* Ellipsoid.R1, the mean radius
R1(o) ==
    IF o._R1 # None THEN Ret(o, Val(o._R1))
    ELSE _cached(Ret(o, _f_late(o, _R1)), "_R1")

\* Ellipsoid.R3, the volumetric radius
R3(o) ==
    IF o._R3 # None THEN Ret(o, Val(o._R3))
    ELSE _cached(Ret(o, _f_late(o, _R3)), "_R3")

\* Ellipsoid.isSpherical
isSpherical(o) == o.f = 0

\* Ellipsoid.isEllipsoidal
isEllipsoidal(o) == o.f # 0

\* The spherical collapse that zeroes f and f_ and keeps the polar radius.
_collapse_keeps_b(a, b, f, f_) ==
    IF Abs(f) < EPS \/ a = b \/ f_ = 0
    THEN [err |-> "", a |-> a, b |-> b, f |-> 0, f_ |-> 0]
    ELSE IF f > EPS1
         THEN [err |-> "ValueError", a |-> a, b |-> b, f |-> f, f_ |-> f_]
         ELSE [err |-> "", a |-> a, b |-> b, f |-> f, f_ |-> f_]

\* The spherical collapse that does not look at the inverse flattening.
_collapse_not_f_(a, b, f, f_) ==
    IF Abs(f) < EPS \/ a = b
    THEN [err |-> "", a |-> a, b |-> a, f |-> 0, f_ |-> 0]
    ELSE IF f > EPS1
         THEN [err |-> "ValueError", a |-> a, b |-> b, f |-> f, f_ |-> f_]
         ELSE [err |-> "", a |-> a, b |-> b, f |-> f, f_ |-> f_]

\* Ellipsoid.__init__, the end of the try block: the spherical collapse and
\* the sanity check of f.  err is "ValueError" or "".
_collapse(a, b, f, f_) ==
    IF Abs(f) < EPS \/ a = b \/ f_ = 0
    THEN [err |-> "", a |-> a, b |-> a, f |-> 0, f_ |-> 0]
    ELSE IF f > EPS1
         THEN [err |-> "ValueError", a |-> a, b |-> b, f |-> f, f_ |-> f_]
         ELSE [err |-> "", a |-> a, b |-> b, f |-> f, f_ |-> f_]

\* Ellipsoid.__init__, the try block: a, b, f and f_ from the arguments.
_a_b_f_f_(a, b, f_) ==
    LET bad == [err |-> "ValueError", a |-> a, b |-> 0, f |-> 0, f_ |-> 0]
    IN  IF ~Radius_(a) THEN bad
        ELSE IF Truthy(b)
             THEN IF ~Radius_(Val(b)) THEN bad
                  ELSE LET f == a_b2f(a, Val(b))
                       IN  _collapse(a, Val(b), f,
                                     IF f_ = None THEN f2f_(f) ELSE Val(f_))
             ELSE IF Truthy(f_)
                  THEN LET b1 == a_f_2b(a, Val(f_))
                       IN  IF ~Radius_(b1) THEN bad
                           ELSE _collapse(a, b1, a_b2f(a, b1), Val(f_))
                  ELSE _collapse(a, a, 0, 0)

\* Ellipsoid.__init__, the last cross-check: b2_a2, which gave p, against
\* e12, which gave q, within EPS.
_assert_e12(p, q) ==
    IF p.err # "" THEN p
    ELSE IF q.err # "" THEN q
    ELSE IF Abs(q.val - p.val) > EPS THEN Raise("AssertionError", q.obj)
    ELSE Ret(q.obj, 0)

\* Ellipsoid.__init__, the last cross-check, given what self.b2_a2 returned.
_assert_b2_a2(p) == _assert_e12(p, e12(p.obj))

\* Ellipsoid.__init__, the cross-checks after the registration.
_init_asserts(o) ==
    IF o.f # 0 /\ o.f_ # 0 /\ Abs(o.f_ - Div(One, o.f)) > TOL
    THEN Raise("AssertionError", o)
    ELSE IF o.f # 0 /\ o.f_ # 0 /\ Abs(o.f - Div(One, o.f_)) > TOL
    THEN Raise("AssertionError", o)
    ELSE _assert_b2_a2(b2_a2(o))

\* ------------------------------------------------------- the registry

\* The names registered in the registry reg, a sequence of ellipsoids.
Names(reg) == { reg[i].name : i \in 1..Len(reg) }

\* _NamedEnumItem._register: an unnamed item is not registered, a name
\* that exists raises a NameError, else the item is added.
_register(reg, o) ==
    IF o.name = "" THEN [err |-> "", reg |-> reg]
    ELSE IF o.name \in Names(reg) THEN [err |-> "NameError", reg |-> reg]
    ELSE [err |-> "", reg |-> Append(reg, [name |-> o.name, a |-> o.a, b |-> o.b,
                                             f |-> o.f, f_ |-> o.f_])]

\* What a constructor gives: the exception raised (err), if any, the object
\* and the registry it leaves.
New(err, o, reg) == [err |-> err, obj |-> o, reg |-> reg]

\* Ellipsoid.__init__, the end: the cross-checks gave t, the registry is reg.
_init_asserted(t, reg) == New(t.err, t.obj, reg)

\* The registration that does not look at the names registered.
_init_registered_unchecked(o, reg) ==
    _init_asserted(_init_asserts(o),
                   IF o.name = "" THEN reg
                   ELSE Append(reg, [name |-> o.name, a |-> o.a, b |-> o.b,
                                     f |-> o.f, f_ |-> o.f_]))

\* Ellipsoid.__init__, from the registration on: self._register gave g.
_init_registering(o, reg, g) ==
    IF g.err # "" THEN New(g.err, o, reg)
    ELSE _init_asserted(_init_asserts(o), g.reg)

\* Ellipsoid.__init__, from the registration on, the registry being reg.
_init_registered(o, reg) == _init_registering(o, reg, _register(reg, o))

\* Ellipsoid.__init__, after the try block, which gave n.
_init_n(n, name, reg) ==
    IF n.err # "" THEN New(n.err, Ellipsoid, reg)
    ELSE _init_registered([Ellipsoid EXCEPT !.a = n.a, !.b = n.b, !.f = n.f,
                                            !.f_ = n.f_, !.name = name], reg)

\* Ellipsoid.__init__(a, b, f_, name) with the registry reg.
Ellipsoid__init__(a, b, f_, name, reg) == _init_n(_a_b_f_f_(a, b, f_), name, reg)

\* Ellipsoid2.__init__(a, f, name)
Ellipsoid2__init__(a, f, name, reg) ==
    IF ~Radius_(a) \/ ~Float_high(f)
    THEN New("ValueError", Ellipsoid, reg)
    ELSE Ellipsoid__init__(a, Some(a_f2b(a, f)), None, name, reg)


\* ------------------------------------------------- the math library

\* The tangent beyond which an angle is the right angle: tan(90 degrees) is
\* finite for floats, and larger than every other tangent.
HUGE == 30 * SCALE

\* math.hypot(1, x) = sqrt(1 + x**2), fmath.hypot1
hypot1(x) ==
    IF Abs(x) <= HUGE THEN Sqrt(One + Sq(x))
    ELSE Mul(Abs(x), Sqrt(One + Sq(Div(One, Abs(x)))))

\* math.hypot(x, y), scaled by the larger of the two.
hypot(x, y) ==
    LET m == Max(Abs(x), Abs(y))
        n == Min(Abs(x), Abs(y))
    IN  IF m = 0 THEN 0 ELSE Mul(m, hypot1(Div(n, m)))

RECURSIVE ExpTerms(_, _, _)
\* The terms x**k / k! of the exponential series from the k-th, term, on.
ExpTerms(x, term, k) ==
    IF term = 0 THEN 0 ELSE term + ExpTerms(x, RDiv(Mul(term, x), k + 1), k + 1)

\* math.exp(x)
Exp(x) == ExpTerms(x, One, 0)

\* math.sinh(x)
Sinh(x) == RDiv(Exp(x) - Exp(-x), 2)

RECURSIVE AtanhTerms(_, _, _)
\* The terms z**k / k of the series of atanh from the odd k on, pow = z**k.
AtanhTerms(z, pow, k) ==
    IF RDiv(pow, k) = 0 THEN 0
    ELSE RDiv(pow, k) + AtanhTerms(z, Mul(Mul(pow, z), z), k + 2)

\* math.atanh(z) for |z| < 1
Atanh(z) == AtanhTerms(z, z, 1)

\* An angle of d degrees.
Deg(d) == d * SCALE

\* math.tan at the nodes of its table, as pairs (degrees * 2, tangent * 1000).
TanTable ==
    << << 0, 0 >>, << 30, 268 >>, << 60, 577 >>, << 90, 1000 >>, << 120, 1732 >>,
       << 140, 2747 >>, << 150, 3732 >>, << 158, 5145 >>, << 159, 5396 >>,
       << 160, 5671 >>, << 162, 6314 >>, << 164, 7115 >>, << 166, 8144 >>,
       << 167, 8777 >>, << 168, 9514 >>, << 170, 11430 >>, << 172, 14301 >>,
       << 174, 19081 >>, << 180, 30000 >> >>

\* The angle and the tangent of the i-th node, in the model's units.
NodeDeg(i) == (TanTable[i][1] * SCALE) \div 2

NodeTan(i) == RDiv(TanTable[i][2] * SCALE, 1000)

\* The node that starts the interval of the angle a in 0..90 degrees, and of
\* the tangent t in 0..HUGE.
DegNode(a) == CHOOSE i \in 1..(Len(TanTable) - 1) : NodeDeg(i) <= a /\ a <= NodeDeg(i + 1)

TanNode(t) == CHOOSE i \in 1..(Len(TanTable) - 1) : NodeTan(i) <= t /\ t <= NodeTan(i + 1)

\* The value at x of the line through (x0, y0) and (x1, y1).
Interpolate(x, x0, x1, y0, y1) == y0 + RDiv((x - x0) * (y1 - y0), x1 - x0)

\* The tangent of the angle a of the interval that the node i starts, and
\* the angle of the tangent t of that interval.
TanFrom(a, i) == Interpolate(a, NodeDeg(i), NodeDeg(i + 1), NodeTan(i), NodeTan(i + 1))

AtanFrom(t, i) == Interpolate(t, NodeTan(i), NodeTan(i + 1), NodeDeg(i), NodeDeg(i + 1))

\* math.tan(math.radians(a)) for -90 <= a <= 90 degrees, between the nodes
\* by linear interpolation.
TanD(a) == Sgn(a) * TanFrom(Abs(a), DegNode(Abs(a)))

\* math.degrees(math.atan(t)), the inverse of TanD.
AtanD(t) ==
    IF Abs(t) >= HUGE THEN Sgn(t) * Deg(90)
    ELSE Sgn(t) * AtanFrom(Abs(t), TanNode(Abs(t)))

\* math.atan(t) in radians, pi / 180 being 3142 / 180000.
Atan(t) == RDiv(RDiv(AtanD(t), 10) * 3142, 18000)

\* math.degrees(math.atan2(y, x)) with no signed zero: atan2(0, 0) is 0.
Atan2D(y, x) ==
    IF x > 0 THEN AtanD(Div(y, x))
    ELSE IF x < 0
         THEN IF y >= 0 THEN Deg(180) - AtanD(Div(y, -x))
              ELSE AtanD(Div(-y, -x)) - Deg(180)
         ELSE IF y > 0 THEN Deg(90) ELSE IF y < 0 THEN -Deg(90) ELSE 0

\* utily.sincos2d(d), the sine and the cosine of d degrees, a multiple of 45.
Sin45 == RDiv(707 * SCALE, 1000)

sincos2d(d) ==
    LET q == (d \div Deg(45)) % 8
    IN  CASE q = 0 -> << 0, One >>
          [] q = 1 -> << Sin45, Sin45 >>
          [] q = 2 -> << One, 0 >>
          [] q = 3 -> << Sin45, -Sin45 >>
          [] q = 4 -> << 0, -One >>
          [] q = 5 -> << -Sin45, -Sin45 >>
          [] q = 6 -> << -One, 0 >>
          [] q = 7 -> << -Sin45, Sin45 >>

\* ------------------------------------- Ellipsoid, for the projections
\* (These properties are memoized by the code; the values are modelled.)

\* Ellipsoid.e, the 1st eccentricity
e(o) == IF o.f # 0 THEN Sqrt(e2abs(o).val) ELSE 0

\* Ellipsoid.a_b, the ratio a / b
a_b(o) == IF o.f # 0 THEN Div(o.a, o.b) ELSE One

\* Ellipsoid.a2_b2, the ratio (a / b)**2
a2_b2(o) == IF o.f # 0 THEN Sq(a_b(o)) ELSE One

\* Ellipsoid.es_atanh(x) = es * atanh(es * x), es the signed eccentricity,
\* e being its absolute value.
_es_atanh(f, e_, x) ==
    IF f > 0 THEN Mul(e_, Atanh(Mul(e_, x)))
    ELSE IF f < 0 THEN -Mul(e_, Atan(Mul(e_, x)))
    ELSE 0

es_atanh(o, x) == _es_atanh(o.f, e(o), x)

\* Ellipsoid.es_c = (1 - f) * exp(es_atanh(1))
es_c(o) == IF o.f # 0 THEN Mul(b_a(o).val, Exp(es_atanh(o, One))) ELSE One

\* Ellipsoid.es_taupf(tau), Karney's equations (7), (8) and (9), given
\* t = hypot1(tau) and s = sinh(es_atanh(tau / t)).
_es_taupf(tau, t, s) == Mul(hypot1(s), tau) - Mul(s, t)

_es_taupf_t(o, tau, t) == _es_taupf(tau, t, Sinh(es_atanh(o, Div(tau, t))))

es_taupf(o, tau) == _es_taupf_t(o, tau, hypot1(tau))

\* The number of Newton iterations of es_tauf, at most.
_TAUF_ITERATIONS == 9

\* Ellipsoid.es_tauf, the correction d of an iteration from t, with
\* a = es_taupf(t) and e = a2_b2.
_es_tauf_d(T_, e_, t, a) == Mul(T_ - a, Div(e_ + Sq(t), Mul(hypot1(t), hypot1(a))))

RECURSIVE es_tauf_loop(_, _, _, _, _, _)
\* Ellipsoid.es_tauf, the end of an iteration: d is added to the sum t.
_es_tauf_sum(o, T_, tol, e_, t, d, n) ==
    IF Abs(d) < tol THEN t + d
    ELSE es_tauf_loop(o, T_, tol, e_, t + d, n - 1)

\* Ellipsoid.es_tauf, the loop: n iterations are left, t is the sum so far.
es_tauf_loop(o, T_, tol, e_, t, n) ==
    IF n = 0 THEN t
    ELSE _es_tauf_sum(o, T_, tol, e_, t, _es_tauf_d(T_, e_, t, es_taupf(o, t)), n)

RECURSIVE es_tauf_evals(_, _, _, _, _, _)
\* Ellipsoid.es_tauf, the loop: how often es_taupf is evaluated.
es_tauf_evals(o, T_, tol, e_, t, n) ==
    IF n = 0 THEN 0
    ELSE IF Abs(_es_tauf_d(T_, e_, t, es_taupf(o, t))) < tol THEN 1
    ELSE 1 + es_tauf_evals(o, T_, tol, e_, t + _es_tauf_d(T_, e_, t, es_taupf(o, t)), n - 1)

\* Ellipsoid.es_tauf returning its argument: nothing is inverted.
_es_tauf_taup(o, T_, e_) == T_

\* Ellipsoid.es_tauf, from the starting guess on, e = a2_b2.
_es_tauf(o, T_, e_) ==
    es_tauf_loop(o, T_, Mul(Max(Abs(T_), One), TOL), e_, Mul(T_, e_), _TAUF_ITERATIONS)

\* The float whose square is INF: t**2 raises an OverflowError from it on.
SQRT_MAX == SCALE * SCALE

\* Ellipsoid.es_tauf for a taup beyond the tangents of the model, which the
\* first correction leaves at the tangent of the right angle, unless t**2
\* of the starting guess t = taup * e is beyond the floats.
_es_tauf_huge(o, taup, e_) ==
    IF Abs(taup) >= Div(SQRT_MAX, e_) THEN Raise("OverflowError", o)
    ELSE Ret(o, Sgn(taup) * HUGE)

\* Ellipsoid.es_tauf(taup), Karney's equations (19), (20) and (21).
es_tauf(o, taup) ==
    IF Abs(taup) >= HUGE THEN _es_tauf_huge(o, taup, a2_b2(o))
    ELSE Ret(o, _es_tauf(o, taup, a2_b2(o)))

\* --------------------------------------------------- auxiliary latitudes

\* math.radians and math.degrees, pi / 180 being 3142 / 180000.
Radians(d) == RDiv(d * 3142, 180000)

Degrees(r) == RDiv(r * 18000, 3142) * 10

\* math.tan of an angle a in degrees: beyond -90..90 by its period.
Tan(a) ==
    IF Abs(a) <= Deg(90) THEN TanD(a)
    ELSE TanD(((a + Deg(90)) % Deg(180)) - Deg(90))

\* math.asinh(x) = log(x + hypot1(x)), the logarithm of y >= 1 being
\* 2 * atanh((y - 1) / (y + 1)).
Asinh(x) ==
    LET y == Abs(x) + hypot1(x)
    IN  Sgn(x) * 2 * Atanh(Div(y - One, y + One))

\* units.Lat(lat, clip): the latitude in degrees; with range errors enabled,
\* a latitude beyond +/-clip raises a RangeError, unless clip is 0.
Lat(o, lat, clip) ==
    IF clip > 0 /\ Abs(lat) > clip THEN Raise("RangeError", o) ELSE Ret(o, lat)

\* units.Phi_(lat, clip): the latitude as an angle, checked like Lat.  The
\* angle is kept in degrees: Tan takes it so, math.sinh takes its Radians.
Phi_(o, lat, clip) == Lat(o, lat, clip)

\* ellipsoids._aux without the check of the range.
_aux_unclipped(r, clip) == r

\* ellipsoids._aux(lat, inverse, auxLat, clip), given what computed lat.
_aux(r, clip) == IF r.err # "" THEN r ELSE Lat(r.obj, r.val, clip)

\* utily.atand of what r gave.
_atand(r) == IF r.err # "" THEN r ELSE Ret(r.obj, AtanD(r.val))

\* Ellipsoid.auxConformal, f(tan(Phi_(lat))) given the angle p.
_auxConformal_f(p, inverse) ==
    IF p.err # "" THEN p
    ELSE IF inverse THEN es_tauf(p.obj, Tan(p.val))
    ELSE Ret(p.obj, es_taupf(p.obj, Tan(p.val)))

\* Ellipsoid.auxConformal(lat, inverse)
auxConformal(o, lat, inverse) ==
    _aux(IF isEllipsoidal(o) THEN _atand(_auxConformal_f(Phi_(o, lat, Deg(90)), inverse))
         ELSE Ret(o, lat), Deg(90))

\* f * tan(Phi_(lat)), given what the property f returned and then the
\* angle p.
_f_tan(f, p) ==
    IF f.err # "" THEN f
    ELSE IF p.err # "" THEN p
    ELSE Ret(f.obj, Mul(f.val, Tan(p.val)))

\* Ellipsoid.auxGeocentric(lat, inverse)
auxGeocentric(o, lat, inverse) ==
    _aux(IF isEllipsoidal(o)
         THEN _atand(_f_tan(IF inverse THEN Ret(o, a2_b2(o)) ELSE b2_a2(o),
                            Phi_(o, lat, Deg(90))))
         ELSE Ret(o, lat), Deg(90))

\* Ellipsoid.auxParametric(lat, inverse)
auxParametric(o, lat, inverse) ==
    _aux(IF isEllipsoidal(o)
         THEN _atand(_f_tan(IF inverse THEN Ret(o, a_b(o)) ELSE b_a(o),
                            Phi_(o, lat, Deg(90))))
         ELSE Ret(o, lat), Deg(90))

\* Ellipsoid.auxIsometric, atan(es_tauf(sinh(r))) in degrees.
_auxIsometric_inverse(t) == IF t.err # "" THEN t ELSE Ret(t.obj, AtanD(t.val))

\* Ellipsoid.auxIsometric, given the angle r, which is not checked.
_auxIsometric_r(o, r, inverse) ==
    IF inverse THEN _auxIsometric_inverse(es_tauf(o, Sinh(Radians(r))))
    ELSE Ret(o, Degrees(Asinh(es_taupf(o, Tan(r)))))

\* Ellipsoid.auxIsometric computing on a sphere as on an ellipsoid.
auxIsometric_always(o, lat, inverse) ==
    _aux(_auxIsometric_r(o, Phi_(o, lat, 0).val, inverse), 0)

\* Ellipsoid.auxIsometric(lat, inverse)
auxIsometric(o, lat, inverse) ==
    _aux(IF isEllipsoidal(o) THEN _auxIsometric_r(o, Phi_(o, lat, 0).val, inverse)
         ELSE Ret(o, lat), 0)

\* Ellipsoid.auxAuthalic(lat, inverse), but for the transform of a latitude
\* in range on an ellipsoid, which the Albers projection computes.
auxAuthalic(o, lat, inverse) ==
    _aux(IF isEllipsoidal(o) THEN Phi_(o, lat, Deg(90)) ELSE Ret(o, lat), Deg(90))

\* Ellipsoid.auxRectifying, from lat = Lat(lat) on, but for a latitude
\* strictly between the equator and a pole on an ellipsoid, which the
\* elliptic integrals compute.
_auxRectifying_lat(r) == _aux(r, Deg(90))

\* Ellipsoid.auxRectifying(lat, inverse)
auxRectifying(o, lat, inverse) == _auxRectifying_lat(Lat(o, lat, Deg(90)))

\* The six conversions, and the latitudes in range on an ellipsoid at which
\* a conversion is computed by a module that is not modelled.
AuxLats == { "auxAuthalic", "auxConformal", "auxGeocentric", "auxIsometric",
             "auxParametric", "auxRectifying" }

NotModelled(o, aux, lat) ==
    /\ isEllipsoidal(o)
    /\ \/ aux = "auxAuthalic" /\ Abs(lat) <= Deg(90)
       \/ aux = "auxRectifying" /\ 0 < Abs(lat) /\ Abs(lat) < Deg(90)

\* The conversion aux of the ellipsoid o.
AuxLat(o, aux, lat, inverse) ==
    CASE aux = "auxAuthalic" -> auxAuthalic(o, lat, inverse)
      [] aux = "auxConformal" -> auxConformal(o, lat, inverse)
      [] aux = "auxGeocentric" -> auxGeocentric(o, lat, inverse)
      [] aux = "auxIsometric" -> auxIsometric(o, lat, inverse)
      [] aux = "auxParametric" -> auxParametric(o, lat, inverse)
      [] aux = "auxRectifying" -> auxRectifying(o, lat, inverse)

\* ------------------------------------------------------------------ UPS

\* ups._Bands
_Bands == << "A", "B", "Y", "Z" >>

\* ups._EPS__2 = EPS**2, the smallest number above 0.
_EPS__2 == Max(Sq(EPS), 1)

\* ups._Falsing, 2000e3 meter, lengths being in 1000 km.
_Falsing == 2 * SCALE

\* ups._K0, the central scale 0.994
_K0 == RDiv(994 * SCALE, 1000)

\* utmupsBase._UPS_LAT_MIN, _UPS_LAT_MAX and _UPS_ZONE: UPS covers the areas
\* south of 79.5 S and north of 83.5 N.
_UPS_LAT_MIN == -((159 * SCALE) \div 2)

_UPS_LAT_MAX == (167 * SCALE) \div 2

_UPS_ZONE == 0

\* ups._Band(a, b), the polar band letter of a latitude and a longitude
_Band(a, b) == _Bands[(IF a < 0 THEN 0 ELSE 2) + (IF b < 0 THEN 0 ELSE 1) + 1]

\* ups._scale(E, rho, tau), the point scale factor
_scale(o, rho, tau) ==
    LET t == hypot1(tau)
    IN  Mul(Mul(Div(rho, o.a), t), Sqrt(e12(o).val + Div(e2(o).val, Sq(t))))

\* utmupsBase._hemi(lat)
_hemi(lat) == IF lat < 0 THEN "S" ELSE "N"

\* utmupsBase._to3zll(lat, lon): the UTM zone of the longitude, and the
\* longitude wrapped into [-180, 180).
_to3zll(lat, lon) ==
    LET x == (lon + Deg(180)) % Deg(360)
    IN  [zone |-> x \div Deg(6) + 1, lat |-> lat, lon |-> x - Deg(180)]

\* ups.upsZoneBand5(lat, lon, strict)
upsZoneBand5(lat, lon, strict) ==
    LET t == _to3zll(lat, lon)
    IN  IF t.lat < _UPS_LAT_MIN
        THEN [err |-> "", zone |-> _UPS_ZONE, band |-> _Band(t.lat, t.lon),
              pole |-> "S", lat |-> t.lat, lon |-> t.lon]
        ELSE IF t.lat > _UPS_LAT_MAX
        THEN [err |-> "", zone |-> _UPS_ZONE, band |-> _Band(t.lat, t.lon),
              pole |-> "N", lat |-> t.lat, lon |-> t.lon]
        ELSE IF strict
        THEN [err |-> "RangeError", zone |-> t.zone, band |-> "",
              pole |-> "", lat |-> t.lat, lon |-> t.lon]
        ELSE [err |-> "", zone |-> t.zone, band |-> "",
              pole |-> _hemi(t.lat), lat |-> t.lat, lon |-> t.lon]

\* No UPS coordinate.
NoUps ==
    [zone |-> -1, pole |-> "", easting |-> 0, northing |-> 0, band |-> "",
     falsed |-> FALSE, convergence |-> None, scale |-> None, scale0 |-> _K0,
     hemisphere |-> "", latlon |-> None, latlon_args |-> FALSE,
     epsg |-> None, mgrs |-> None, utm |-> None]

\* str.upper() of the first letter of a pole: "?" is a letter other than
\* N and S.
Upper1(pole) ==
    CASE pole \in { "N", "n", "North", "north" } -> "N"
      [] pole \in { "S", "s", "South", "south" } -> "S"
      [] pole = "" -> ""
      [] OTHER -> "?"

\* utmupsBase._UTMUPS_ZONE_MAX, the last UTM zone; the zones start at the UPS
\* zone.
_UTMUPS_ZONE_MAX == 60

\* utmupsBase._to3zBhp(zone, band, hemipole): the zone, the band and the
\* pole by its letter; a zone that is no UTM or UPS zone and a pole other
\* than N or S raise a ValueError.
_to3zBhp(zone, band, hemipole) ==
    IF zone < _UPS_ZONE \/ zone > _UTMUPS_ZONE_MAX
       \/ Upper1(hemipole) \notin { "N", "S", "" }
    THEN [err |-> "ValueError", zone |-> zone, band |-> band, pole |-> ""]
    ELSE [err |-> "", zone |-> zone, band |-> band,
          pole |-> IF Upper1(hemipole) # "" \/ band = "" THEN Upper1(hemipole)
                   ELSE IF band \in { "A", "B" } THEN "S" ELSE "N"]

\* Ups.__init__ accepting every band.
Ups__init__any_band(z, easting, northing, falsed, convergence, scale) ==
    IF z.err # "" \/ z.zone # _UPS_ZONE
    THEN [err |-> "UPSError", ups |-> NoUps]
    ELSE [err |-> "",
          ups |-> [NoUps EXCEPT !.zone = z.zone, !.pole = z.pole, !.easting = easting,
                                !.northing = northing, !.band = z.band,
                                !.falsed = falsed, !.convergence = convergence,
                                !.scale = scale]]

\* Ups.__init__, given what _to3zBhp returned or raised: the zone is the UPS
\* zone and the band, if any, a polar band.
Ups__init__z(z, easting, northing, falsed, convergence, scale) ==
    IF z.err # "" \/ z.zone # _UPS_ZONE
       \/ (z.band # "" /\ z.band \notin { _Bands[i] : i \in DOMAIN _Bands })
    THEN [err |-> "UPSError", ups |-> NoUps]
    ELSE [err |-> "",
          ups |-> [NoUps EXCEPT !.zone = z.zone, !.pole = z.pole, !.easting = easting,
                                !.northing = northing, !.band = z.band,
                                !.falsed = falsed, !.convergence = convergence,
                                !.scale = scale]]

\* Ups.__init__(zone, pole, easting, northing, band, falsed, convergence,
\* scale), convergence and scale being None if not given.
Ups__init__(zone, pole, easting, northing, band, falsed, convergence, scale) ==
    Ups__init__z(_to3zBhp(zone, band, pole), easting, northing, falsed, convergence, scale)

\* Ups.falsed2, the falsing of the easting and of the northing
falsed2(u) ==
    LET f == IF u.falsed THEN _Falsing ELSE 0
    IN  << f, f >>

\* ups.toUps8, the end: the Ups made, n, gets the hemisphere of lat.
_toUps8_n(n, lat) ==
    IF n.err # "" THEN n
    ELSE [err |-> "", ups |-> [n.ups EXCEPT !.hemisphere = _hemi(lat)]]

\* ups.toUps8 falsing the easting alone.
_toUps8_r_easting(o, u, p, A, t, r, falsed, strict) ==
    LET N == p = "N"
        sc == sincos2d(u.lon)
        F == IF falsed THEN _Falsing ELSE 0
    IN  _toUps8_n(Ups__init__(IF u.zone # _UPS_ZONE /\ ~strict THEN _UPS_ZONE ELSE u.zone,
                              p,
                              Mul(sc[1], r) + F,
                              (IF N THEN -Mul(sc[2], r) ELSE Mul(sc[2], r)),
                              u.band, falsed,
                              Some(IF N THEN u.lon ELSE -u.lon),
                              Some(IF A THEN _K0 ELSE _scale(o, r, t))),
                  u.lat)

\* ups.toUps8, from the radius r of the parallel on: the scale, the easting
\* and northing, the convergence, and the Ups.
_toUps8_r(o, u, p, A, t, r, falsed, strict) ==
    LET N == p = "N"
        sc == sincos2d(u.lon)
        F == IF falsed THEN _Falsing ELSE 0
    IN  _toUps8_n(Ups__init__(IF u.zone # _UPS_ZONE /\ ~strict THEN _UPS_ZONE ELSE u.zone,
                              p,
                              Mul(sc[1], r) + F,
                              (IF N THEN -Mul(sc[2], r) ELSE Mul(sc[2], r)) + F,
                              u.band, falsed,
                              Some(IF N THEN u.lon ELSE -u.lon),
                              Some(IF A THEN _K0 ELSE _scale(o, r, t))),
                  u.lat)

\* ups.toUps8 without the branch of the pole.
_toUps8_T_no_pole(o, u, p, A, t, T, falsed, strict) ==
    LET r0 == hypot1(T) + Abs(T)
        r1 == IF T >= 0 THEN Div(One, r0) ELSE r0
    IN  _toUps8_r(o, u, p, A, t, Mul(r1, Div(Mul(2 * _K0, o.a), es_c(o))), falsed, strict)

\* ups.toUps8, from T = E.es_taupf(t) on: the radius r.
_toUps8_T(o, u, p, A, t, T, falsed, strict) ==
    LET r0 == hypot1(T) + Abs(T)
        r1 == IF T >= 0 THEN (IF A THEN 0 ELSE Div(One, r0)) ELSE r0
    IN  _toUps8_r(o, u, p, A, t, Mul(r1, Div(Mul(2 * _K0, o.a), es_c(o))), falsed, strict)

\* ups.toUps8, from the latitude a seen from the pole p on.
_toUps8_a(o, u, p, a, falsed, strict) ==
    _toUps8_T(o, u, p, Abs(a - Deg(90)) < TOL, TanD(a), es_taupf(o, TanD(a)),
              falsed, strict)

\* ups.toUps8, from the pole p on.
_toUps8_p(o, u, p, falsed, strict) ==
    _toUps8_a(o, u, p, IF p = "N" THEN u.lat ELSE -u.lat, falsed, strict)

\* ups.toUps8, after upsZoneBand5, which gave u.
_toUps8_u(o, u, pole, falsed, strict) ==
    IF u.err # "" THEN [err |-> u.err, ups |-> NoUps]
    ELSE _toUps8_p(o, u, IF pole # "" THEN pole ELSE u.pole, falsed, strict)

\* ups.toUps8(lat, lon, datum, pole, falsed, strict), lat and lon in
\* degrees and o the ellipsoid of the datum.
toUps8(lat, lon, o, pole, falsed, strict) ==
    _toUps8_u(o, upsZoneBand5(lat, lon, strict), pole, falsed, strict)

\* ups.toUps8 called with a LatLon of the same datum instead of two numbers:
\* the LatLon is kept as the cached result of toLatLon, for the unfalse that
\* equals falsed.  The convergence and the scale of the LatLon are taken to
\* be those of the coordinate.
_toUps8_latlon(r, lat, lon, falsed) ==
    IF r.err # "" THEN r
    ELSE [r EXCEPT !.ups.latlon = << lat, lon, Val(r.ups.convergence), Val(r.ups.scale) >>,
                   !.ups.latlon_args = falsed]

\* UtmUpsBase.eastingnorthing2(falsed): the easting and northing, falsed
\* or not.
eastingnorthing2(u, falsed) ==
    LET F == IF u.falsed THEN _Falsing ELSE 0
        d == IF u.falsed /\ ~falsed THEN -F
             ELSE IF falsed /\ ~u.falsed THEN F
             ELSE 0
    IN  << u.easting + d, u.northing + d >>

\* math.degrees(math.atan2(y, -x)) for an x that is no negative zero: -x
\* is the negative zero if x is 0, and atan2(0.0, -0.0) is pi.
Atan2D_neg(y, x) == IF x = 0 /\ y = 0 THEN Deg(180) ELSE Atan2D(y, -x)

\* Ups.toLatLon, the end: the latitude a and the longitude b are returned
\* with the convergence c and the scale k, and cached, and the band and the
\* hemisphere are set if they are not.
_toLatLon_ab(u, unfalse, a, b, c, k) ==
    [lat |-> a, lon |-> b, convergence |-> c, scale |-> k,
     ups |-> [u EXCEPT !.band = IF u.band = "" THEN _Band(a, b) ELSE u.band,
                       !.hemisphere = IF u.hemisphere = "" THEN _hemi(a)
                                      ELSE u.hemisphere,
                       !.latlon = << a, b, c, k >>,
                       !.latlon_args = unfalse]]

\* Ups.toLatLon, from the longitude b on: the convergence is b or -b.
_toLatLon_b(u, unfalse, a, b, k) ==
    _toLatLon_ab(u, unfalse, a, b, IF u.pole = "N" THEN b ELSE -b, k)

\* Ups.toLatLon, from tau = E.es_tauf(..) on, x and y being the easting and
\* northing and r their hypot.
_toLatLon_tau(u, unfalse, o, x, y, r, tau) ==
    _toLatLon_b(u, unfalse,
                IF u.pole = "N" THEN AtanD(tau) ELSE -AtanD(tau),
                IF u.pole = "N" THEN Atan2D_neg(x, y) ELSE Atan2D(x, y),
                IF r > 0 THEN _scale(o, r, tau) ELSE u.scale0)

\* Ups.toLatLon, from t on: t is _EPS__2 at least, which keeps the argument
\* of es_tauf within the floats.
_toLatLon_t(u, unfalse, o, x, y, r, t) ==
    _toLatLon_tau(u, unfalse, o, x, y, r, es_tauf(o, RDiv(Div(One, t) - t, 2)).val)

\* Ups.toLatLon, from r = hypot(x, y) on.
_toLatLon_r(u, unfalse, o, x, y, r) ==
    _toLatLon_t(u, unfalse, o, x, y, r,
                IF r > 0 THEN Div(r, Div(Mul(2 * u.scale0, o.a), es_c(o))) ELSE _EPS__2)

\* Ups.toLatLon, from the easting and northing xy on.
_toLatLon_xy(u, unfalse, o, xy) ==
    _toLatLon_r(u, unfalse, o, xy[1], xy[2], hypot(xy[1], xy[2]))

\* Ups.toLatLon returning what is cached, whatever unfalse it was made with.
toLatLon_any_unfalse(u, unfalse, o) ==
    IF u.latlon # None
    THEN [lat |-> u.latlon[1], lon |-> u.latlon[2], convergence |-> u.latlon[3],
          scale |-> u.latlon[4], ups |-> u]
    ELSE _toLatLon_xy(u, unfalse, o, eastingnorthing2(u, ~unfalse))

\* Ups.toLatLon(unfalse), o the ellipsoid of the datum: the latitude,
\* longitude, convergence and scale, and the coordinate with what the call
\* caches.
toLatLon(u, unfalse, o) ==
    IF u.latlon # None /\ u.latlon_args = unfalse
    THEN [lat |-> u.latlon[1], lon |-> u.latlon[2], convergence |-> u.latlon[3],
          scale |-> u.latlon[4], ups |-> u]
    ELSE _toLatLon_xy(u, unfalse, o, eastingnorthing2(u, ~unfalse))

\* Ups.band: the band, found by toLatLon(unfalse=True) if there is none
Ups_band(u, o) == IF u.band = "" THEN toLatLon(u, TRUE, o).ups.band ELSE u.band

\* Ups.hemisphere: likewise
Ups_hemisphere(u, o) ==
    IF u.hemisphere = "" THEN toLatLon(u, TRUE, o).ups.hemisphere ELSE u.hemisphere

\* ups._K1, the central scale of the class _UpsK1
_K1 == One

\* ups.toUps8 for the class _UpsK1: the radius r, T being es_taupf(t) and A
\* true at the pole.
_UpsK1_r(o, A, T) ==
    Mul(IF T >= 0 THEN (IF A THEN 0 ELSE Div(One, hypot1(T) + Abs(T)))
        ELSE hypot1(T) + Abs(T),
        Div(Mul(2 * _K1, o.a), es_c(o)))

\* ups.toUps8 for the class _UpsK1: the scale k
_UpsK1_k(o, A, t, T) == IF A THEN _K1 ELSE _scale(o, _UpsK1_r(o, A, T), t)

\* ups.toUps8 for the class _UpsK1, from the latitude a seen from the pole.
_UpsK1_a(o, a) == _UpsK1_k(o, Abs(a - Deg(90)) < TOL, TanD(a), es_taupf(o, TanD(a)))

\* toUps8(lat, 0, datum, Ups=_UpsK1).scale, after upsZoneBand5, which gave u.
_UpsK1_scale(o, u) ==
    IF u.err # "" THEN Raise(u.err, o)
    ELSE Ret(o, _UpsK1_a(o, IF u.pole = "N" THEN u.lat ELSE -u.lat))

\* Ups.rescale0 forgetting nothing.
_rescale0_k_keeps(u, k) ==
    [err |-> "", k |-> k, ups |-> [u EXCEPT !.scale0 = k]]

\* Ups.rescale0, the end: the central scale k replaces another one, and the
\* band and what was cached are forgotten.
_rescale0_k(u, k) ==
    [err |-> "", k |-> k,
     ups |-> IF u.scale0 # k
             THEN [u EXCEPT !.band = "", !.latlon = None, !.epsg = None, !.mgrs = None,
                            !.utm = None, !.scale0 = k]
             ELSE u]

\* Ups.rescale0, given the scale r of toUps8 at the latitude.
_rescale0_r(u, s0, r) ==
    IF r.err # "" THEN [err |-> r.err, k |-> 0, ups |-> u]
    ELSE _rescale0_k(u, Div(s0, r.val))

\* Ups.rescale0(lat, scale0), o the ellipsoid of the datum: Scalar_ refuses a
\* scale0 below EPS and Lat a latitude beyond 90 degrees.
rescale0(u, lat, scale0, o) ==
    IF scale0 < EPS THEN [err |-> "UPSError", k |-> 0, ups |-> u]
    ELSE IF Lat(o, lat, Deg(90)).err # "" THEN [err |-> "RangeError", k |-> 0, ups |-> u]
    ELSE _rescale0_r(u, scale0, _UpsK1_scale(o, upsZoneBand5(Abs(lat), 0, TRUE)))

\* utm.toUtm8(ll, falsed, zone): the UTM coordinate, given by what it is
\* computed from.
toUtm8(ll, falsed, zone) == [zone |-> zone, falsed |-> falsed, lat |-> ll.lat, lon |-> ll.lon]

\* Ups.toUtm(zone, falsed), given what toLatLon(unfalse=True) returns
_toUtm_ll(ll, zone, falsed) == [ll.ups EXCEPT !.utm = Some(toUtm8(ll, falsed, zone))]

\* Ups.toUtm(zone, falsed): the coordinate with what the call caches.  The
\* zone None is no zone of a Utm.
toUtm(u, zone, falsed, o) ==
    IF u.utm = None \/ zone = None \/ Val(u.utm).zone # zone \/ falsed # Val(u.utm).falsed
    THEN _toUtm_ll(toLatLon(u, TRUE, o), zone, falsed)
    ELSE u

\* Ups.toMgrs, given what toUtm(None) left: the grid reference is given by
\* the Utm it is made from.
_toMgrs_u(u) == [u EXCEPT !.mgrs = Some(Val(u.utm))]

\* Ups.toMgrs
toMgrs(u, o) == IF u.mgrs = None THEN _toMgrs_u(toUtm(u, None, TRUE, o)) ELSE u

\* UtmUpsBase.epsg: the code, given by the pole it is made from.
epsg(u) == IF u.epsg = None THEN [u EXCEPT !.epsg = Some(u.pole)] ELSE u

\* The characters that are digits, in the order of their values.
Digits == << "0", "1", "2", "3", "4", "5", "6", "7", "8", "9" >>

isdigit(c) == \E i \in DOMAIN Digits : Digits[i] = c

RECURSIVE int(_)
\* int(cs) of the digits cs
int(cs) ==
    IF cs = << >> THEN 0
    ELSE 10 * int(SubSeq(cs, 1, Len(cs) - 1))
         + (CHOOSE i \in DOMAIN Digits : Digits[i] = cs[Len(cs)]) - 1

\* float(cs) of the digits cs, a length in meter: 1000 km are One.
float_meter(cs) == RDiv(RDiv(int(cs), 1000) * SCALE, 1000)

\* How many of the characters cs are digits, from the first on.
RECURSIVE digits(_)
digits(cs) ==
    IF cs = << >> \/ ~isdigit(Head(cs)) THEN 0 ELSE 1 + digits(Tail(cs))

\* utmupsBase._parseUTMUPS5, given the number k of the digits of the zone in
\* the first word of u: the band is what follows them, the zone 0 if there
\* are none.
_parseUTMUPS5_k(u, k) ==
    IF Len(u[1]) > k + 1 \/ ~(\A c \in { u[3][i] : i \in DOMAIN u[3] } : isdigit(c))
       \/ ~(\A c \in { u[4][i] : i \in DOMAIN u[4] } : isdigit(c))
       \/ u[3] = << >> \/ u[4] = << >>
    THEN [err |-> "UPSError", zone |-> -1, pole |-> "", easting |-> 0, northing |-> 0,
          band |-> ""]
    ELSE [err |-> "", zone |-> int(SubSeq(u[1], 1, k)), pole |-> u[2],
          easting |-> float_meter(u[3]), northing |-> float_meter(u[4]),
          band |-> IF Len(u[1]) > k THEN u[1][k + 1] ELSE ""]

\* utmupsBase._parseUTMUPS5(strUPS, ..): the words u of the string are
\* "[zone][band]", the pole, the easting and the northing.
_parseUTMUPS5(u) ==
    IF Len(u) < 4 \/ Upper1(u[2]) \notin { "N", "S" }
    THEN [err |-> "UPSError", zone |-> -1, pole |-> "", easting |-> 0, northing |-> 0,
          band |-> ""]
    ELSE _parseUTMUPS5_k(u, digits(u[1]))

\* ups.parseUPS5, given what _parseUTMUPS5 returned or raised.
_parseUPS5_t(t, falsed) ==
    IF t.err # "" THEN [err |-> t.err, ups |-> NoUps]
    ELSE IF t.zone # _UPS_ZONE
            \/ (t.band # "" /\ t.band \notin { _Bands[i] : i \in DOMAIN _Bands })
    THEN [err |-> "UPSError", ups |-> NoUps]
    ELSE Ups__init__(t.zone, t.pole, t.easting, t.northing, t.band, falsed, None, None)

\* ups.parseUPS5(strUPS, falsed), the string given by its words and each
\* word but the pole by its characters.
parseUPS5(strUPS, falsed) == _parseUPS5_t(_parseUTMUPS5(strUPS), falsed)

\* Ups.toUps(pole): a copy, unless another pole is asked for.
toUps(u, pole) ==
    IF u.pole = pole \/ pole = "" THEN [err |-> "", ups |-> u]
    ELSE [err |-> "UPSError", ups |-> NoUps]

\* ------------------------------------------------------- Krueger series

\* The quotient p / q of two integers, as a float.
Ratio(p, q) == RDiv(p * SCALE, q)

\* a_b2n(a, b): the 3rd flattening (a - b) / (a + b)
a_b2n(a, b) ==
    LET t == IF _spherical_a_b(a, b) THEN 0 ELSE a - b
    IN  IF Abs(t) < EPS THEN 0 ELSE Div(t, a + b)

\* f2n(f): the 3rd flattening f / (2 - f)
f2n(f) == IF _spherical(f) THEN 0 ELSE Div(f, Two - f)

\* Ellipsoid.n, the 3rd flattening (named flattening3rd too)
flattening3rd(o) ==
    IF o._n # None THEN Ret(o, Val(o._n))
    ELSE _cached(_assert(o, a_b2n(o.a, o.b), f2n(o.f), TOL, 0), "_n")

\* fmath.fpowers(x, n): the powers x, x**2, .. x**n
RECURSIVE fpower(_, _)
fpower(x, i) == IF i <= 1 THEN x ELSE Mul(fpower(x, i - 1), x)

fpowers(x, k) == [i \in 1..k |-> fpower(x, i)]

\* fmath.fdot(a, *b): the sum of the products a[i] * b[i]
RECURSIVE fdotFrom(_, _, _)
fdotFrom(a, b, i) ==
    IF i > Len(a) THEN 0 ELSE Mul(a[i], b[i]) + fdotFrom(a, b, i + 1)

fdot(a, b) == fdotFrom(a, b, 1)

\* The 8-th order Alpha series: row i holds the factors of n**i .. n**8.
\* Quotients with a term beyond the integers' range are given with both
\* terms cut by the same power of ten, which moves them by less than 2e-5.
_AlphaKs8 ==
    << << Ratio(1, 2), Ratio(-2, 3), Ratio(5, 16), Ratio(41, 180),
          Ratio(-127, 288), Ratio(7891, 37800), Ratio(72161, 387072),
          Ratio(-189751, 508032) >>,
       << Ratio(13, 48), Ratio(-3, 5), Ratio(557, 1440), Ratio(281, 630),
          Ratio(-198343, 193536), Ratio(13769, 28800),
          Ratio(148004, 174182) >>,
       << Ratio(61, 240), Ratio(-103, 140), Ratio(15061, 26880),
          Ratio(167603, 181440), Ratio(-671024, 290304),
          Ratio(796824, 798336) >>,
       << Ratio(49561, 161280), Ratio(-179, 168), Ratio(660166, 725760),
          Ratio(97445, 49896), Ratio(-401761, 76640) >>,
       << Ratio(34729, 80640), Ratio(-341889, 199584), Ratio(146441, 91238),
          Ratio(260541, 62270) >>,
       << Ratio(212379, 319334), Ratio(-307055, 103784),
          Ratio(175214, 58119) >>,
       << Ratio(152226, 138378), Ratio(-167599, 31135) >>,
       << Ratio(142473, 74392) >> >>

\* The 8-th order Beta series, likewise.
_BetaKs8 ==
    << << Ratio(1, 2), Ratio(-2, 3), Ratio(37, 96), Ratio(-1, 360),
          Ratio(-81, 512), Ratio(96199, 604800), Ratio(-540647, 3870720),
          Ratio(794436, 6773760) >>,
       << Ratio(1, 48), Ratio(1, 15), Ratio(-437, 1440), Ratio(46, 105),
          Ratio(-111871, 387072), Ratio(51841, 1209600),
          Ratio(247495, 3483648) >>,
       << Ratio(17, 480), Ratio(-37, 840), Ratio(-209, 4480),
          Ratio(5569, 90720), Ratio(926190, 5806080),
          Ratio(-645746, 1774080) >>,
       << Ratio(4397, 161280), Ratio(-11, 504), Ratio(-830251, 7257600),
          Ratio(466511, 2494800), Ratio(324154, 7664026) >>,
       << Ratio(4583, 161280), Ratio(-108847, 3991680),
          Ratio(-800583, 6386688), Ratio(228944, 1245404) >>,
       << Ratio(206487, 6386688), Ratio(-163632, 5189184),
          Ratio(-220465, 1291530) >>,
       << Ratio(219941, 5535130), Ratio(-497324, 12454042) >>,
       << Ratio(191774, 3719607) >> >>

\* Ellipsoid._Kseries with every row taken against the powers from n on.
_Kseries_ns_from_n(AB8Ks, k, ns) ==
    [i \in 1..k |-> fdot(SubSeq(AB8Ks[i], 1, k - i + 1), SubSeq(ns, 1, k - i + 1))]

\* Ellipsoid._Kseries, given the powers ns of n: k coefficients, the i-th
\* from the first k - i + 1 factors of row i.
_Kseries_ns(AB8Ks, k, ns) ==
    [i \in 1..k |-> fdot(SubSeq(AB8Ks[i], 1, k - i + 1), SubSeq(ns, i, k))]

\* Ellipsoid._Kseries, given what self.n returned.
_Kseries_n(r, AB8Ks, k) ==
    IF r.err # "" THEN r ELSE Ret(r.obj, _Kseries_ns(AB8Ks, k, fpowers(r.val, k)))

\* Ellipsoid._Kseries(*AB8Ks): the series of the order self.KsOrder
_Kseries(o, AB8Ks) == _Kseries_n(flattening3rd(o), AB8Ks, o._KsOrder)

\* Ellipsoid.AlphaKs, computed once
AlphaKs(o) ==
    IF o._AlphaKs # None THEN Ret(o, Val(o._AlphaKs))
    ELSE _cached(_Kseries(o, _AlphaKs8), "_AlphaKs")

\* Ellipsoid.BetaKs, computed once
BetaKs(o) ==
    IF o._BetaKs # None THEN Ret(o, Val(o._BetaKs))
    ELSE _cached(_Kseries(o, _BetaKs8), "_BetaKs")

\* Ellipsoid.KsOrder, the getter
KsOrder(o) == Ret(o, o._KsOrder)

\* A cached series t is true if it is there and not the empty tuple.
TruthyKs(t) == t # None /\ Val(t) # << >>

KsOrder_set_unvalidated(o, order) ==
    IF order \notin { 4, 6, 8 } THEN Raise("ValueError", [o EXCEPT !._KsOrder = order])
    ELSE Ret([o EXCEPT !._AlphaKs = None, !._BetaKs = None, !._KsOrder = order], 0)

KsOrder_set_keeps_Ks(o, order) ==
    IF order \notin { 4, 6, 8 } THEN Raise("ValueError", o)
    ELSE Ret([o EXCEPT !._KsOrder = order], 0)

KsOrder_set_always(o, order) ==
    IF order \notin { 4, 6, 8 } THEN Raise("ValueError", o)
    ELSE Ret([o EXCEPT !._AlphaKs = None, !._BetaKs = None, !._KsOrder = order], 0)

\* Ellipsoid.KsOrder, the setter: an order other than 4, 6 or 8 is refused,
\* a new order drops both series.
KsOrder_set(o, order) ==
    IF order \notin { 4, 6, 8 } THEN Raise("ValueError", o)
    ELSE IF order # o._KsOrder
    THEN Ret([o EXCEPT !._AlphaKs = IF TruthyKs(@) THEN None ELSE @,
                       !._BetaKs = IF TruthyKs(@) THEN None ELSE @,
                       !._KsOrder = order], 0)
    ELSE Ret(o, 0)

\* ---------------------------------------------------------------- state

VARIABLES
    Ellipsoids,   \* the registry: the registered ellipsoids, in order
    E,            \* what the last constructor call returned, with its caches
    res,          \* the last call: its arguments and what it gave or raised
    U,            \* the UPS coordinate that the last toUps8 returned
    out,          \* the last UPS call: its arguments and what it gave or raised
    ks,           \* the last Krueger series call: its argument and what it gave
    aux,          \* the last auxiliary latitude call, likewise
    made,         \* the last parseUPS5, Ups or toUps call, and what it returned
    threads       \* the threads reading a property: their calls on the way

vars == << Ellipsoids, E, res, U, out, ks, aux, made, threads >>

\* Arguments of the constructors.  Radii are a few units long, so that
\* squares and quotients stay far from the integers' range.
RadiiA == { -One, 0, 4 * One }

RadiiB == { None, Some(0), Some(-One), Some(EPS), Some(3 * One), Some(4 * One),
            Some(4 * One - 5), Some(5 * One) }

InvFlat == { None, Some(0), Some(3 * One), Some(4 * One) }

Flat == { -(One \div 4), 0, 1, One \div 4, EPS1 + 1, One }

\* The arguments (a, b, f_) of Ellipsoid and (a, f) of Ellipsoid2 tried.  A
\* radius a that is refused is tried with few of the other arguments, which
\* are not looked at.
EllipsoidArgs ==
    { t \in RadiiA \X RadiiB \X InvFlat :
        t[1] > 0 \/ (t[2] \in { None, Some(3 * One) } /\ t[3] = None) }

Ellipsoid2Args == { t \in RadiiA \X Flat : t[1] > 0 \/ t[2] = 0 }

EllipsoidNames == { "", "WGS84", "Mars" }

Accessors == { "b_a", "b2_a2", "e2", "e12", "e22", "e32", "e2abs", "e22abs", "e32abs" }

\* A property of the ellipsoid o, by name.
Property(o, p) ==
    CASE p = "b_a" -> b_a(o)
      [] p = "b2_a2" -> b2_a2(o)
      [] p = "e2" -> e2(o)
      [] p = "e12" -> e12(o)
      [] p = "e22" -> e22(o)
      [] p = "e32" -> e32(o)
      [] p = "e2abs" -> e2abs(o)
      [] p = "e22abs" -> e22abs(o)
      [] p = "e32abs" -> e32abs(o)
      [] p = "eccentricity2nd2" -> eccentricity2nd2(o)
      [] p = "R1" -> R1(o)
      [] p = "R3" -> R3(o)

\* The standard ellipsoid registered when the module is loaded, given by
\* its inverse flattening.
WGS84 == Ellipsoid__init__(4 * One, None, Some(4 * One), "WGS84", << >>)

\* No object: the constructor raised.
NoEllipsoid == [Ellipsoid EXCEPT !.name = "None"]

\* A call: the arguments, whether the name was registered when the call was
\* made, and the exception raised, if any.
Call(op, err, a, b, f_, f, name, dup) ==
    [op |-> op, err |-> err, a |-> a, b |-> b, f_ |-> f_, f |-> f, name |-> name,
     dup |-> dup]

\* A UPS call: the arguments of the last toUps8 or upsZoneBand5, the
\* exception raised, if any, the band and pole found, and the argument and
\* the result of the last toLatLon.
UpsCall(op, err, lat, lon, pole, falsed, strict, band, hemipole, unfalse, lat2, lon2) ==
    [op |-> op, err |-> err, lat |-> lat, lon |-> lon, pole |-> pole,
     falsed |-> falsed, strict |-> strict, band |-> band, hemipole |-> hemipole,
     unfalse |-> unfalse, lat2 |-> lat2, lon2 |-> lon2, convergence2 |-> 0,
     scale2 |-> 0]

\* A Krueger series call: the property read or set, the exception raised, if
\* any, the order assigned and the series returned.
KsCall(op, err, order, val) == [op |-> op, err |-> err, order |-> order, val |-> val]

\* An auxiliary latitude call: the method, its arguments, the exception
\* raised, if any, the value returned, the latitude that gave the argument if
\* that is the result of a forward conversion, and for es_tauf the number of
\* evaluations of es_taupf.
AuxCall(op, err, lat, inverse, val, from, evals) ==
    [op |-> op, err |-> err, lat |-> lat, inverse |-> inverse, val |-> val,
     from |-> from, evals |-> evals]

NoAuxCall == AuxCall("", "", 0, FALSE, 0, None, 0)

\* A call that makes a UPS coordinate: the function, the exception raised, if
\* any, the string parsed, the zone, pole, easting, northing and band given
\* or parsed, falsed, and the coordinate returned.
UpsMade(op, err, str, zone, pole, easting, northing, band, falsed, ups) ==
    [op |-> op, err |-> err, str |-> str, zone |-> zone, pole |-> pole,
     easting |-> easting, northing |-> northing, band |-> band, falsed |-> falsed,
     ups |-> ups]

\* The threads that read properties of one ellipsoid at the same time.
NThreads == 2

Threads == 1 .. NThreads

\* A thread that is in no call: stack holds the property reads it is in,
\* the innermost first, and ret what its last read returned.
Idle == [stack |-> << >>, ret |-> None]

Init ==
    /\ Ellipsoids = WGS84.reg
    /\ E = WGS84.obj
    /\ res = Call("Ellipsoid", WGS84.err, 4 * One, None, Some(4 * One), 0, "WGS84", FALSE)
    /\ U = NoUps
    /\ out = UpsCall("", "", 0, 0, "", FALSE, FALSE, "", "", FALSE, 0, 0)
    /\ ks = KsCall("", "", 0, << >>)
    /\ aux = NoAuxCall
    /\ made = UpsMade("", "", << >>, 0, "", 0, 0, "", FALSE, NoUps)
    /\ threads = [t \in Threads |-> Idle]

\* A constructor returns r, or raises: the call c is noted with what it
\* raised, and no series of the new ellipsoid was read yet.
Constructed(r, c) ==
    /\ Ellipsoids' = r.reg
    /\ E' = IF r.err = "" THEN r.obj ELSE NoEllipsoid
    /\ res' = [c EXCEPT !.err = r.err]
    /\ ks' = KsCall("", "", 0, << >>)
    /\ aux' = NoAuxCall

\* Ellipsoid(a, b, f_, name)
NewEllipsoid(a, b, f_, name) ==
    /\ Constructed(Ellipsoid__init__(a, b, f_, name, Ellipsoids),
                   Call("Ellipsoid", "", a, b, f_, 0, name, name \in Names(Ellipsoids)))
    /\ UNCHANGED << threads, U, out, made >>

\* Ellipsoid2(a, f, name)
NewEllipsoid2(a, f, name) ==
    /\ Constructed(Ellipsoid2__init__(a, f, name, Ellipsoids),
                   Call("Ellipsoid2", "", a, None, None, f, name,
                        name \in Names(Ellipsoids)))
    /\ UNCHANGED << threads, U, out, made >>

\* The property p of the ellipsoid E was read and gave r.
Read(p, r) ==
    /\ E' = r.obj
    /\ res' = Call("get", r.err, E.a, None, None, 0, p, FALSE)

\* Reading the property p of the ellipsoid E.
Get(p) ==
    /\ E # NoEllipsoid
    /\ Read(p, Property(E, p))
    /\ UNCHANGED << threads, Ellipsoids, U, out, ks, aux, made >>

Next ==
    \/ \E t \in EllipsoidArgs, n \in EllipsoidNames : NewEllipsoid(t[1], t[2], t[3], n)
    \/ \E t \in Ellipsoid2Args, n \in EllipsoidNames : NewEllipsoid2(t[1], t[2], n)
    \/ \E p \in Accessors : Get(p)

Spec == Init /\ [][Next]_vars

\* The radii and the other properties read of ellipsoids of every shape.
RadiiAccessors == { "R1", "R3", "e2", "e22", "eccentricity2nd2" }

\* The polar radii of the ellipsoids whose radii are read, the equatorial
\* radius being 4: oblate, spherical and prolate ones.
RadiiPolar == { 2 * One, 3 * One, 4 * One - 100, 4 * One, 4 * One + 100, 5 * One }

NextRadii ==
    \/ \E b \in RadiiPolar : NewEllipsoid(4 * One, Some(b), None, "")
    \/ \E p \in RadiiAccessors : Get(p)

SpecRadii == Init /\ [][NextRadii]_vars

\* Latitudes, longitudes and poles of the UPS calls, in degrees.  An
\* explicit pole is tried at 85 degrees north and south.
Lats == { -Deg(90), 5 - Deg(90), -Deg(85), _UPS_LAT_MIN, 0, _UPS_LAT_MAX, Deg(85), Deg(87),
          Deg(90) - 5, Deg(90) }

Lons == { -Deg(135), -Deg(90), 0, Deg(45), Deg(180) }

Poles == { "", "N", "S" }

UpsArgs ==
    { t \in Lats \X Lons \X Poles : t[3] = "" \/ Abs(t[1]) = Deg(85) }

\* The calls of toUps8 tried: (lat, lon, pole), falsed and strict.
UpsCalls == UpsArgs \X BOOLEAN \X BOOLEAN

\* toUps8 with the datum WGS84, for each of the calls: the pairs of a call
\* and what it returns.
toUps8_WGS84 ==
    { << c, toUps8(c[1][1], c[1][2], WGS84.obj, c[1][3], c[2], c[3]) >> : c \in UpsCalls }

\* toUps8 returns r, or raises; u is what its upsZoneBand5 finds.
Projected(r, u, lat, lon, pole, falsed, strict) ==
    /\ U' = r.ups
    /\ out' = UpsCall("toUps8", r.err, lat, lon, pole, falsed, strict,
                      u.band, u.pole, FALSE, 0, 0)

\* U = toUps8(lat, lon, datum=WGS84, pole, falsed, strict); the band and
\* the pole that its upsZoneBand5(lat, lon, strict) finds are noted.
ToUps8(lat, lon, pole, falsed, strict) ==
    /\ Projected((CHOOSE p \in toUps8_WGS84 :
                      p[1] = << << lat, lon, pole >>, falsed, strict >>)[2],
                 upsZoneBand5(lat, lon, strict), lat, lon, pole, falsed, strict)
    /\ UNCHANGED << threads, Ellipsoids, E, res, ks, aux, made >>

\* U = toUps8(LatLon(lat, lon, datum=WGS84), falsed=falsed, strict=strict)
ToUps8LatLon(lat, lon, falsed, strict) ==
    /\ Projected(_toUps8_latlon((CHOOSE p \in toUps8_WGS84 :
                                     p[1] = << << lat, lon, "" >>, falsed, strict >>)[2],
                                lat, lon, falsed),
                 upsZoneBand5(lat, lon, strict), lat, lon, "", falsed, strict)
    /\ UNCHANGED << threads, Ellipsoids, E, res, ks, aux, made >>

\* toLatLon returns the latitude and longitude r.
Unprojected(r, unfalse) ==
    /\ U' = r.ups
    /\ out' = [out EXCEPT !.op = "toLatLon", !.unfalse = unfalse,
                          !.lat2 = r.lat, !.lon2 = r.lon,
                          !.convergence2 = r.convergence, !.scale2 = r.scale]

\* U.toLatLon(unfalse)
ToLatLon(unfalse) ==
    /\ U # NoUps
    /\ Unprojected(toLatLon(U, unfalse, WGS84.obj), unfalse)
    /\ UNCHANGED << threads, Ellipsoids, E, res, ks, aux, made >>

NextUps ==
    \/ \E c \in UpsCalls : ToUps8(c[1][1], c[1][2], c[1][3], c[2], c[3])
    \/ \E c \in UpsCalls : c[1][3] = "" /\ ToUps8LatLon(c[1][1], c[1][2], c[2], c[3])
    \/ \E unfalse \in BOOLEAN : ToLatLon(unfalse)

SpecUps == Init /\ [][NextUps]_vars

\* The orders assigned to KsOrder, and the flattenings of the ellipsoids whose
\* series are read: a sphere, an oblate, a prolate and a very flat one, whose
\* n**5 is well above the resolution.
KsOrders == { 0, 4, 5, 6, 8, 10 }

KsFlat == { 0, One \div 4, -(One \div 4), (3 * One) \div 4 }

\* The series call op, with the order assigned if any, returned r.
KsCalled(op, order, r) ==
    /\ E' = r.obj
    /\ ks' = KsCall(op, r.err, order, IF r.err = "" THEN r.val ELSE << >>)

\* E.KsOrder = order
SetKsOrder(order) ==
    /\ E # NoEllipsoid
    /\ KsCalled("KsOrder", order, KsOrder_set(E, order))
    /\ UNCHANGED << threads, Ellipsoids, res, U, out, aux, made >>

\* E.AlphaKs
GetAlphaKs ==
    /\ E # NoEllipsoid
    /\ KsCalled("AlphaKs", 0, AlphaKs(E))
    /\ UNCHANGED << threads, Ellipsoids, res, U, out, aux, made >>

\* E.BetaKs
GetBetaKs ==
    /\ E # NoEllipsoid
    /\ KsCalled("BetaKs", 0, BetaKs(E))
    /\ UNCHANGED << threads, Ellipsoids, res, U, out, aux, made >>

NextKs ==
    \/ \E f \in KsFlat : NewEllipsoid2(4 * One, f, "")
    \/ \E order \in KsOrders : SetKsOrder(order)
    \/ GetAlphaKs
    \/ GetBetaKs

SpecKs == Init /\ [][NextKs]_vars

\* The properties read between the assignments of KsOrder, which fill other
\* caches than those of the series.
KsFrameAccessors == { "b_a", "e2", "R1" }

NextKsFrame ==
    \/ \E f \in { One \div 4, -(One \div 4) } : NewEllipsoid2(4 * One, f, "")
    \/ \E order \in { 4, 5, 6, 8 } : SetKsOrder(order)
    \/ GetAlphaKs
    \/ GetBetaKs
    \/ \E p \in KsFrameAccessors : Get(p)

SpecKsFrame == Init /\ [][NextKsFrame]_vars

\* The properties computed once that the threads read: AlphaKs reads n.
Memoized == { "n", "AlphaKs" }

\* The cache slot of a property.
Slot(p) == CASE p = "n" -> "_n" [] p = "AlphaKs" -> "_AlphaKs"

\* The property computed once that the computation of p reads, if any.
Reads(p) == IF p = "AlphaKs" THEN "n" ELSE ""

\* The property p read by one thread alone.
Memo(o, p) ==
    CASE p = "n" -> flattening3rd(o) [] p = "AlphaKs" -> AlphaKs(o)

\* The right side of the assignment to the slot of p: the value computed
\* from a, b, f and the order, and for AlphaKs from what self.n returned, q.
Computed(o, p, q) ==
    CASE p = "n" -> flattening3rd([o EXCEPT !._n = None])
      [] p = "AlphaKs" -> _Kseries_n(q, _AlphaKs8, o._KsOrder)

\* An assignment that adds to what another thread has stored.
_assigned_added(o, slot, v) ==
    [o EXCEPT ![slot] = IF @ # None /\ slot # "_AlphaKs" THEN Some(Val(@) + v + 1)
                        ELSE Some(v)]

\* The assignment self._p = v
_assigned(o, slot, v) == [o EXCEPT ![slot] = Some(v)]

\* A read of the property p that a thread is in: at is where it stands
\* (before the test of the slot, the computation, the assignment or the
\* return), q what the property it reads returned, v the value computed and
\* stored whether the thread has assigned the slot.
Frame(p, at, q, v, stored) == [p |-> p, at |-> at, q |-> q, v |-> v, stored |-> stored]

Entered(p) == Frame(p, "test", None, None, FALSE)

\* What a read returned, or raised.
Returned(p, err, val, stored) == [p |-> p, err |-> err, val |-> val, stored |-> stored]

\* The thread t has the frame fr in place of its innermost one.
Moved(t, fr) ==
    threads' = [threads EXCEPT ![t].stack = << fr >> \o Tail(@)]

\* No thread is in a call.
Quiet == \A t \in Threads : threads[t].stack = << >>

\* The thread t starts to read the property p of E.
ThreadGet(t, p) ==
    /\ E # NoEllipsoid
    /\ threads[t].stack = << >>
    /\ threads' = [threads EXCEPT ![t] = [stack |-> << Entered(p) >>, ret |-> None]]
    /\ UNCHANGED << Ellipsoids, E, res, U, out, ks, aux, made >>

\* `if self._p is None:` in the thread t.  A slot that is filled takes the
\* thread to the return; one that is not to the computation, which starts
\* with the read of another property if it needs one.
ThreadTest(t) ==
    /\ threads[t].stack # << >>
    /\ Head(threads[t].stack).at = "test"
    /\ IF E[Slot(Head(threads[t].stack).p)] # None
       THEN Moved(t, [Head(threads[t].stack) EXCEPT !.at = "return"])
       ELSE IF Reads(Head(threads[t].stack).p) # ""
       THEN threads' = [threads EXCEPT ![t].stack =
                           << Entered(Reads(Head(@).p)), [Head(@) EXCEPT !.at = "reading"] >>
                               \o Tail(@)]
       ELSE Moved(t, [Head(threads[t].stack) EXCEPT !.at = "compute"])
    /\ UNCHANGED << Ellipsoids, E, res, U, out, ks, aux, made >>

\* The thread t, which computed r: an exception ends all the reads it is
\* in, a value is what it will assign.
ThreadComputed(t, fr, r) ==
    IF r.err # ""
    THEN threads' = [threads EXCEPT ![t] =
                        [stack |-> << >>,
                         ret |-> Some(Returned(threads[t].stack[Len(threads[t].stack)].p,
                                               r.err, None, FALSE))]]
    ELSE Moved(t, [fr EXCEPT !.at = "assign", !.v = Some(r.val)])

\* The thread t computes the value of the property it is in.
ThreadCompute(t) ==
    /\ threads[t].stack # << >>
    /\ Head(threads[t].stack).at = "compute"
    /\ ThreadComputed(t, Head(threads[t].stack),
                      Computed(E, Head(threads[t].stack).p, Head(threads[t].stack).q))
    /\ UNCHANGED << Ellipsoids, E, res, U, out, ks, aux, made >>

\* `self._p = ..` in the thread t
ThreadAssign(t) ==
    /\ threads[t].stack # << >>
    /\ Head(threads[t].stack).at = "assign"
    /\ E' = _assigned(E, Slot(Head(threads[t].stack).p), Val(Head(threads[t].stack).v))
    /\ Moved(t, [Head(threads[t].stack) EXCEPT !.at = "return", !.stored = TRUE])
    /\ UNCHANGED << Ellipsoids, res, U, out, ks, aux, made >>

\* `return self._p` in the thread t: what the slot holds goes to the read
\* that waits for it, or is what the thread's call returns.
ThreadReturn(t) ==
    /\ threads[t].stack # << >>
    /\ Head(threads[t].stack).at = "return"
    /\ IF Len(threads[t].stack) > 1
       THEN threads' = [threads EXCEPT ![t].stack =
                           << [@[2] EXCEPT !.at = "compute",
                                           !.q = Ret(E, Val(E[Slot(Head(threads[t].stack).p)]))] >>
                               \o Tail(Tail(@))]
       ELSE threads' = [threads EXCEPT ![t] =
                           [stack |-> << >>,
                            ret |-> Some(Returned(Head(threads[t].stack).p, "",
                                                  E[Slot(Head(threads[t].stack).p)],
                                                  Head(threads[t].stack).stored))]]
    /\ UNCHANGED << Ellipsoids, E, res, U, out, ks, aux, made >>

\* The threads read properties of one ellipsoid; a new ellipsoid is made
\* only while no thread is in a call, and no order is assigned.
NextThreads ==
    \/ Quiet /\ NewEllipsoid2(4 * One, One \div 4, "")
    \/ \E t \in Threads, p \in Memoized : ThreadGet(t, p)
    \/ \E t \in Threads : ThreadTest(t)
    \/ \E t \in Threads : ThreadCompute(t)
    \/ \E t \in Threads : ThreadAssign(t)
    \/ \E t \in Threads : ThreadReturn(t)

SpecThreads == Init /\ [][NextThreads]_vars

\* The flattenings of the ellipsoids whose latitudes are converted: a sphere,
\* an oblate and a prolate one.
AuxFlat == { 0, One \div 4, -(One \div 4) }

\* The latitudes converted, in and beyond -90..90 degrees.
AuxLatitudes ==
    { -Deg(100), -Deg(91), -Deg(90), -Deg(85), -Deg(60), -Deg(45), -Deg(10), 0,
      Deg(30), Deg(45), Deg(60), Deg(80), Deg(85), Deg(90), Deg(90) + 1, Deg(135) }

\* The arguments of es_tauf: tangents of the model, and floats far beyond.
Taups ==
    { 0, One, -One, 5 * One, -(12 * One), HUGE, -HUGE, 500 * One, 2000 * One,
      -(2000 * One), INF - 1 }

\* The conversion op of lat returned r.
AuxCalled(op, lat, inverse, from, r) ==
    /\ E' = r.obj
    /\ aux' = AuxCall(op, r.err, lat, inverse, IF r.err = "" THEN r.val ELSE 0, from, 0)

\* E.auxAuthalic(lat, inverse), E.auxConformal(lat, inverse), ..
Convert(op, lat, inverse) ==
    /\ E # NoEllipsoid
    /\ ~NotModelled(E, op, lat)
    /\ AuxCalled(op, lat, inverse, None, AuxLat(E, op, lat, inverse))
    /\ UNCHANGED << threads, Ellipsoids, res, U, out, ks, made >>

\* The inverse conversion of what the forward conversion just returned.
Reconvert ==
    /\ E # NoEllipsoid
    /\ aux.op \in AuxLats /\ aux.err = "" /\ ~aux.inverse
    /\ ~NotModelled(E, aux.op, aux.val)
    /\ AuxCalled(aux.op, aux.val, TRUE, Some(aux.lat), AuxLat(E, aux.op, aux.val, TRUE))
    /\ UNCHANGED << threads, Ellipsoids, res, U, out, ks, made >>

\* es_tauf returned r after n evaluations of es_taupf.
EsTaufCalled(taup, r, n) ==
    /\ E' = r.obj
    /\ aux' = AuxCall("es_tauf", r.err, taup, FALSE, IF r.err = "" THEN r.val ELSE 0,
                      None, n)

\* E.es_tauf(taup)
EsTauf(taup) ==
    /\ E # NoEllipsoid
    /\ EsTaufCalled(taup, es_tauf(E, taup),
                    IF Abs(taup) >= HUGE THEN 1
                    ELSE es_tauf_evals(E, taup, Mul(Max(Abs(taup), One), TOL),
                                       a2_b2(E), Mul(taup, a2_b2(E)), _TAUF_ITERATIONS))
    /\ UNCHANGED << threads, Ellipsoids, res, U, out, ks, made >>

NextAux ==
    \/ \E f \in AuxFlat : NewEllipsoid2(4 * One, f, "")
    \/ \E op \in AuxLats, lat \in AuxLatitudes, inverse \in BOOLEAN :
          Convert(op, lat, inverse)
    \/ Reconvert
    \/ \E taup \in Taups : EsTauf(taup)

SpecAux == Init /\ [][NextAux]_vars

\* The first words "[zone][band]" of the strings parsed, their poles, and
\* their eastings and northings in meter.
ZoneBands ==
    { << "0", "0", "B" >>, << "0", "0" >>, << "0", "A" >>, << "0", "0", "C" >>,
      << "3", "1" >>, << "0", "1", "Z" >>, << "Y" >> }

PoleWords == { "S", "N", "s", "North", "X" }

Meters ==
    { << << "2", "0", "0", "0", "0", "0", "0" >>, << "2", "0", "0", "0", "0", "0", "0" >> >>,
      << << "1", "0", "0", "0", "0", "0", "0" >>, << "2", "0", "0", "0", "0", "0", "0" >> >>,
      << << "2", "5", "0", "0", "0", "0" >>, << "2", "5", "0", "0", "0", "0" >> >> }

\* The strings parsed: four words, or three.
Strings ==
    { << z, p, m[1], m[2] >> : z \in ZoneBands, p \in PoleWords, m \in Meters }
        \cup { << z, "S", m[1] >> : z \in ZoneBands, m \in Meters }

\* The arguments of Ups(zone, pole, easting, northing, band, falsed) tried.
UpsZones == { 0, 31 }

UpsPoles == { "N", "S", "south", "X" }

UpsMeters == { << 2 * One, 2 * One >>, << One, 2 * One >>, << One \div 4, One \div 4 >> }

UpsBands == { "", "A", "B", "Y", "Z", "C" }

\* The poles asked of toUps, by their spellings, or none.
PoleSpellings == { "", "N", "n", "North", "S", "s", "South" }

\* A coordinate was made, or not: it is the coordinate U from now on.
Made(r, m) ==
    /\ U' = r.ups
    /\ made' = [m EXCEPT !.err = r.err, !.ups = r.ups]
    /\ out' = UpsCall("", "", 0, 0, "", FALSE, FALSE, "", "", FALSE, 0, 0)

\* U = parseUPS5(strUPS): the zone, pole, easting, northing and band of the
\* string are noted as t reads them.
Parsed(strUPS, t) ==
    Made(parseUPS5(strUPS, TRUE),
         UpsMade("parseUPS5", "", strUPS, t.zone, t.pole, t.easting, t.northing,
                 t.band, TRUE, NoUps))

ParseUPS5(strUPS) ==
    /\ Parsed(strUPS, _parseUTMUPS5(strUPS))
    /\ UNCHANGED << threads, Ellipsoids, E, res, ks, aux >>

\* U = Ups(zone, pole, easting, northing, band=band, falsed=falsed)
NewUps(zone, pole, easting, northing, band, falsed) ==
    /\ Made(Ups__init__(zone, pole, easting, northing, band, falsed, None, None),
            UpsMade("Ups", "", << >>, zone, pole, easting, northing, band, falsed, NoUps))
    /\ UNCHANGED << threads, Ellipsoids, E, res, ks, aux >>

\* U.toUps(pole) returned r.
Copied(pole, r) ==
    made' = UpsMade("toUps", r.err, << >>, U.zone, pole, U.easting, U.northing,
                    U.band, U.falsed, r.ups)

\* U.toUps(pole)
ToUps(pole) ==
    /\ U # NoUps
    /\ Copied(pole, toUps(U, pole))
    /\ UNCHANGED << threads, Ellipsoids, E, res, U, out, ks, aux >>

NextParse ==
    \/ \E strUPS \in Strings : ParseUPS5(strUPS)
    \/ \E zone \in UpsZones, pole \in UpsPoles, m \in UpsMeters, band \in UpsBands,
          falsed \in BOOLEAN :
            NewUps(zone, pole, m[1], m[2], band, falsed)
    \/ \E unfalse \in BOOLEAN : ToLatLon(unfalse)
    \/ \E pole \in PoleSpellings : ToUps(pole)

SpecParse == Init /\ [][NextParse]_vars


\* The latitudes and scales given to rescale0: the pole, where the scale
\* of the projection is its central scale, 85 degrees on either side, a
\* latitude outside of UPS and one that is none, and a scale that is none.
RescaleLats == { Deg(90), Deg(85), -Deg(85), Deg(80), Deg(100) }

RescaleScales == { _K0, One, 0 }

\* U.rescale0(lat, scale0) returned, or raised: the call is noted with the
\* central scale it found.
Rescaled(r, lat) ==
    /\ U' = r.ups
    /\ out' = [UpsCall("rescale0", r.err, lat, 0, "", FALSE, FALSE, "", "", FALSE, 0, 0)
                  EXCEPT !.scale2 = r.k]

\* U.rescale0(lat, scale0)
Rescale0(lat, scale0) ==
    /\ U # NoUps
    /\ Rescaled(rescale0(U, lat, scale0, WGS84.obj), lat)
    /\ UNCHANGED << threads, Ellipsoids, E, res, ks, aux, made >>

\* A call that returns no number: the coordinate is u after it.
Cached(op, u) ==
    /\ U' = u
    /\ out' = UpsCall(op, "", 0, 0, "", FALSE, FALSE, "", "", FALSE, 0, 0)

\* U.toUtm(zone)
ToUtm(zone) ==
    /\ U # NoUps
    /\ Cached("toUtm", toUtm(U, zone, TRUE, WGS84.obj))
    /\ UNCHANGED << threads, Ellipsoids, E, res, ks, aux, made >>

\* U.toMgrs()
ToMgrs ==
    /\ U # NoUps
    /\ Cached("toMgrs", toMgrs(U, WGS84.obj))
    /\ UNCHANGED << threads, Ellipsoids, E, res, ks, aux, made >>

\* U.epsg
GetEpsg ==
    /\ U # NoUps
    /\ Cached("epsg", epsg(U))
    /\ UNCHANGED << threads, Ellipsoids, E, res, ks, aux, made >>

NextRescale ==
    \/ \E pole \in { "N", "S" }, b \in { "", "A" } : NewUps(0, pole, One, 2 * One, b, TRUE)
    \/ \E unfalse \in BOOLEAN : ToLatLon(unfalse)
    \/ \E lat \in RescaleLats, scale0 \in RescaleScales : Rescale0(lat, scale0)
    \/ ToUtm(Some(31))
    \/ ToMgrs
    \/ GetEpsg

SpecRescale == Init /\ [][NextRescale]_vars

\* ------------------------------------------------------------ properties

Constructors == { "Ellipsoid", "Ellipsoid2" }

\* The latitude lat is in the range of UPS as the specification gives it.
UpsLatitude(lat) == lat <= _UPS_LAT_MIN \/ lat >= _UPS_LAT_MAX

\* The angle between the directions a and b, in degrees.
AngleBetween(a, b) ==
    LET d == (a - b) % Deg(360) IN Min(d, Deg(360) - d)

\* A tenth of a degree: what a round trip may lose at the resolution of the
\* model.
RoundTripTol == Deg(1) \div 10

\* C1: for every latitude at or below -79.5 or at or above 83.5 degrees and
\* every longitude, toUps8 (pole not given, falsed, strict) gives a
\* coordinate, and its toLatLon gives back the latitude and the longitude
\* within the tolerance.
C1_RoundTrip ==
    (UpsLatitude(out.lat) /\ out.pole = "" /\ out.falsed /\ out.strict)
        => /\ out.op = "toUps8" => out.err = ""
           /\ (out.op = "toLatLon" /\ out.unfalse)
                 => /\ Abs(out.lat2 - out.lat) <= RoundTripTol
                    /\ AngleBetween(out.lon2, out.lon) <= RoundTripTol

\* C2: upsZoneBand5, called by toUps8, gives the pole S for a latitude at or
\* below -79.5 and the pole N for a latitude at or above 83.5 degrees; any
\* other latitude raises a RangeError if strict and nothing if not.
C2_Classify ==
    out.op = "toUps8"
        => /\ out.lat <= _UPS_LAT_MIN => (out.err = "" /\ out.hemipole = "S")
           /\ out.lat >= _UPS_LAT_MAX => (out.err = "" /\ out.hemipole = "N")
           /\ (_UPS_LAT_MIN < out.lat /\ out.lat < _UPS_LAT_MAX)
                 => out.err = IF out.strict THEN "RangeError" ELSE ""

\* C3: a coordinate from toUps8 that has a band letter has A or B exactly
\* at the pole S and Y or Z exactly at the pole N, A or Y for a (clipped)
\* longitude below 0 and B or Z otherwise, a pole being given or not.
C3_BandOfPole ==
    (out.op = "toUps8" /\ out.err = "" /\ U.band # "")
        => /\ U.band \in { "A", "B" } <=> U.pole = "S"
           /\ U.band \in { "Y", "Z" } <=> U.pole = "N"
           /\ U.band \in { "A", "Y" } <=> _to3zll(out.lat, out.lon).lon < 0

\* C4: every Ellipsoid or Ellipsoid2 that was constructed, from (a, b),
\* (a, f_), (a, f) or a alone, has b = a * (1 - f) within a relative error
\* of half of EPS, the resolution of the numbers, also after the spherical
\* collapse.
C4_PolarRadius ==
    E # NoEllipsoid => Abs(E.b - Mul(E.a, One - E.f)) <= Mul(E.a, EPS \div 2)

\* An ellipsoid was made from a and an inverse flattening: b is computed.
C4_Witness ==
    /\ res.op = "Ellipsoid" /\ res.err = ""
    /\ res.b = None /\ res.f_ = Some(3 * One)
    /\ E.f # 0 /\ E.b # E.a

\* The call c asks for a sphere: a alone, b equal to a, a flattening of 0
\* or a flattening below EPS.
SphereArgs(c) ==
    \/ c.op = "Ellipsoid" /\ c.b = None /\ c.f_ = None
    \/ c.op = "Ellipsoid" /\ c.b = Some(c.a)
    \/ c.op = "Ellipsoid" /\ c.f_ = Some(0)
    \/ c.op = "Ellipsoid" /\ c.b # None /\ c.a > 0
                          /\ Abs(Div(c.a - Val(c.b), c.a)) < EPS
    \/ c.op = "Ellipsoid2" /\ Abs(c.f) < EPS

\* The radii of the call c are accepted as radii and its name is free.
RadiiAndNameAccepted(c) ==
    /\ Radius_(c.a)
    /\ c.b = None \/ Radius_(Val(c.b))
    /\ ~c.dup

\* C5: constructing with a alone, with b equal to a, with flattening 0 or
\* with |f| below EPS (the radii being valid and the name free) succeeds and
\* yields f = 0, f_ = 0, b = a, e2 = 0 and isSpherical.
C5_SphericalCollapse ==
    (SphereArgs(res) /\ RadiiAndNameAccepted(res))
        => /\ res.err = ""
           /\ E.f = 0 /\ E.f_ = 0 /\ E.b = E.a /\ E.a = res.a
           /\ e2(E).err = "" /\ e2(E).val = 0
           /\ isSpherical(E)

\* Ellipsoid2 was given a flattening below EPS that is not 0.
C5_Witness ==
    /\ res.op = "Ellipsoid2" /\ res.f # 0 /\ Abs(res.f) < EPS
    /\ res.err = "" /\ isSpherical(E)

\* C6: the construction raises a ValueError whenever a radius supplied, a or
\* b, is zero or negative, and no ellipsoid is made (the name being free).
C6_NonPositiveRadius ==
    (/\ res.op \in Constructors /\ ~res.dup
     /\ res.a <= 0 \/ (res.b # None /\ Val(res.b) <= 0))
        => (res.err = "ValueError" /\ E = NoEllipsoid)

\* C7: the construction raises a ValueError whenever the flattening
\* (a - b) / a that the arguments imply is above 1 - EPS, for Ellipsoid(a, b)
\* and for Ellipsoid2(a, f) (the name being free).
C7_DegenerateFlattening ==
    (/\ ~res.dup
     /\ \/ /\ res.op = "Ellipsoid" /\ Radius_(res.a)
           /\ res.b # None /\ Radius_(Val(res.b))
           /\ Div(res.a - Val(res.b), res.a) > EPS1
        \/ res.op = "Ellipsoid2" /\ Radius_(res.a) /\ res.f > EPS1)
        => res.err = "ValueError"

\* What the call c raises when made without a name.
Unnamed(c) ==
    IF c.op = "Ellipsoid" THEN Ellipsoid__init__(c.a, c.b, c.f_, "", << >>).err
    ELSE Ellipsoid2__init__(c.a, c.f, "", << >>).err

\* C8: the registry holds at most one ellipsoid per name, and a construction
\* with a name that is registered leaves the registry as it is and raises a
\* NameError (a ValueError if its arguments are refused before).
C8_OneModelPerName ==
    /\ [](\A i, j \in DOMAIN Ellipsoids :
              Ellipsoids[i].name = Ellipsoids[j].name => i = j)
    /\ [][(res'.op \in Constructors /\ res'.name \in Names(Ellipsoids))
             => /\ Ellipsoids' = Ellipsoids
                /\ E' = NoEllipsoid
                /\ res'.err = IF Unnamed(res') = "ValueError" THEN "ValueError"
                              ELSE "NameError"]_vars

\* A name registered by an earlier construction was used again.
C8_Witness ==
    /\ res.op = "Ellipsoid" /\ res.name = "Mars" /\ res.dup
    /\ res.err = "NameError" /\ Len(Ellipsoids) = 2

\* The call c supplies b and f_, and 1 / f is further than TOL from f_.
Mismatch(c) ==
    /\ c.op = "Ellipsoid" /\ Radius_(c.a)
    /\ Truthy(c.b) /\ Radius_(Val(c.b)) /\ Truthy(c.f_)
    /\ a_b2f(c.a, Val(c.b)) # 0
    /\ Abs(Val(c.f_) - Div(One, a_b2f(c.a, Val(c.b)))) > TOL

\* C9: the cross-check precedes the registration: when b and f_ are supplied
\* and 1 / f differs from f_ by more than TOL, an AssertionError is raised
\* and the name, free before, is not added to the registry.
C9_CheckBeforeRegister ==
    (Mismatch(res) /\ ~res.dup)
        => /\ res.err = "AssertionError"
           /\ res.name \notin Names(Ellipsoids)

\* C10: on an ellipsoid that was constructed, every accessor of a derived
\* quantity returns a value and raises nothing, whatever was read before.
C10_AccessorsNeverRaise == res.op = "get" => res.err = ""


\* The series a fresh ellipsoid like o, with nothing cached, computes at the
\* order k.
FreshKs(o, AB8Ks, k) ==
    _Kseries([o EXCEPT !._n = None, !._AlphaKs = None, !._BetaKs = None,
                       !._KsOrder = k], AB8Ks).val

\* C11: assigning KsOrder a value other than 4, 6 or 8 raises a ValueError
\* and leaves the order and both cached series as they were.
C11_InvalidOrder ==
    [][(ks'.op = "KsOrder" /\ ks'.order \notin { 4, 6, 8 })
          => /\ ks'.err = "ValueError"
             /\ E'._KsOrder = E._KsOrder
             /\ E'._AlphaKs = E._AlphaKs
             /\ E'._BetaKs = E._BetaKs]_vars

\* An invalid order was refused while both series were cached at an order
\* other than the default.
C11_Witness ==
    /\ ks.op = "KsOrder" /\ ks.order \notin { 4, 6, 8 } /\ ks.err = "ValueError"
    /\ E._KsOrder = 6 /\ E._AlphaKs # None /\ E._BetaKs # None

\* C12: whatever orders were assigned and whatever was read before, AlphaKs
\* and BetaKs return KsOrder coefficients, those that a fresh computation at
\* the current order gives, and a cached series is never one of another
\* order.
C12_SeriesOfOrder ==
    E # NoEllipsoid
        => /\ (ks.op = "AlphaKs" /\ ks.err = "")
                 => /\ Len(ks.val) = E._KsOrder
                    /\ ks.val = FreshKs(E, _AlphaKs8, E._KsOrder)
           /\ (ks.op = "BetaKs" /\ ks.err = "")
                 => /\ Len(ks.val) = E._KsOrder
                    /\ ks.val = FreshKs(E, _BetaKs8, E._KsOrder)
           /\ E._AlphaKs # None => Val(E._AlphaKs) = FreshKs(E, _AlphaKs8, E._KsOrder)
           /\ E._BetaKs # None => Val(E._BetaKs) = FreshKs(E, _BetaKs8, E._KsOrder)

\* AlphaKs was read at the order 4 on the very flat ellipsoid, where the
\* series of the order 8, read before, differs in its first coefficient.
C12_Witness ==
    /\ ks.op = "AlphaKs" /\ ks.err = "" /\ E._KsOrder = 4 /\ E._BetaKs # None
    /\ E.f = (3 * One) \div 4
    /\ ks.val[1] # FreshKs(E, _AlphaKs8, 8)[1]


\* What the Newton solve of es_tauf resolves: it ends with a step below TOL
\* times max(1, |tau|), and a change of the tangent by that much changes the
\* angle by less than TOL radians, 0.8 degrees with the EPS of the model.
ConformalTol == Degrees(TOL)

\* C13: on every ellipsoidal model and for every latitude strictly between
\* the poles, the inverse conformal conversion of the conformal latitude gives
\* the latitude back, within the tolerance.
C13_ConformalRoundTrip ==
    (/\ aux.op = "auxConformal" /\ aux.inverse /\ aux.from # None
     /\ E # NoEllipsoid /\ isEllipsoidal(E))
        => (Abs(Val(aux.from)) < Deg(90)
              => aux.err = "" /\ Abs(aux.val - Val(aux.from)) <= ConformalTol)

\* A latitude near a pole went forth and back on an ellipsoid, and its
\* conformal latitude was more than a degree away from it.
C13_Witness ==
    /\ aux.op = "auxConformal" /\ aux.inverse /\ aux.from = Some(Deg(85))
    /\ E # NoEllipsoid /\ isEllipsoidal(E) /\ aux.err = ""
    /\ Abs(aux.lat - Deg(85)) > Deg(1)

\* C14: es_tauf returns an estimate for every taup, however large, raises
\* nothing and evaluates es_taupf 9 times at most.
C14_TaufTerminates ==
    aux.op = "es_tauf" => aux.err = "" /\ aux.evals <= _TAUF_ITERATIONS

\* C15: on a sphere each of the six conversions, forward and inverse, returns
\* the latitude it is given, for every latitude from -90 to 90 degrees.
C15_SphereIdentity ==
    (/\ aux.op \in AuxLats /\ E # NoEllipsoid /\ isSpherical(E)
     /\ Abs(aux.lat) <= Deg(90))
        => aux.err = "" /\ aux.val = aux.lat

\* A conversion was called on a sphere at the south pole, inverse.
C15_Witness ==
    /\ aux.op \in AuxLats /\ E # NoEllipsoid /\ isSpherical(E)
    /\ aux.lat = -Deg(90) /\ aux.inverse /\ aux.val = -Deg(90)

\* C16: with range errors enabled, a latitude beyond -90..90 degrees makes
\* every conversion but auxIsometric raise a RangeError, forward and inverse,
\* on ellipsoids and spheres alike; auxIsometric raises none.
C16_RangeError ==
    (aux.op \in AuxLats /\ Abs(aux.lat) > Deg(90))
        => (aux.err = "RangeError") = (aux.op # "auxIsometric")

\* auxGeocentric, inverse, was refused a latitude just beyond the north pole
\* on an ellipsoid.
C16_Witness ==
    /\ aux.op = "auxGeocentric" /\ aux.lat = Deg(90) + 1 /\ aux.inverse
    /\ E # NoEllipsoid /\ isEllipsoidal(E) /\ aux.err = "RangeError"


\* What toUps8 returns for the arguments of the last call with falsed the
\* other way.
OtherFalsed ==
    (CHOOSE p \in toUps8_WGS84 :
        p[1] = << << out.lat, out.lon, out.pole >>, ~out.falsed, out.strict >>)[2]

\* C17: the easting and the northing that toUps8 returns with falsed=True are
\* 2,000,000 m (2 units of 1000 km) above those it returns for the same
\* latitude, longitude, datum and pole with falsed=False, the pole, band,
\* convergence and scale are the same, and falsed2 is that offset twice if
\* falsed and (0, 0) if not.
C17_FalsingOffset ==
    (out.op = "toUps8" /\ out.err = "")
        => /\ OtherFalsed.err = ""
           /\ U.easting - OtherFalsed.ups.easting = (IF out.falsed THEN 2 * One ELSE -2 * One)
           /\ U.northing - OtherFalsed.ups.northing = (IF out.falsed THEN 2 * One ELSE -2 * One)
           /\ U.pole = OtherFalsed.ups.pole
           /\ U.band = OtherFalsed.ups.band
           /\ U.convergence = OtherFalsed.ups.convergence
           /\ U.scale = OtherFalsed.ups.scale
           /\ falsed2(U) = (IF out.falsed THEN << 2 * One, 2 * One >> ELSE << 0, 0 >>)

\* toUps8 returned a falsed coordinate away from the pole, west of 0.
C17_Witness ==
    /\ out.op = "toUps8" /\ out.err = "" /\ out.falsed /\ U.falsed
    /\ U.easting < 2 * One /\ U.northing # 2 * One


\* The string "00B S 2000000 2000000", by its words.
Str00B == << << "0", "0", "B" >>, "S", << "2", "0", "0", "0", "0", "0", "0" >>,
             << "2", "0", "0", "0", "0", "0", "0" >> >>

\* C18: parsing "00B S 2000000 2000000" gives the zone 0, the pole S, the
\* easting and northing 2,000,000 m and the band B; and toLatLon with
\* unfalse=True of a falsed coordinate whose easting and northing are the
\* false origin gives the latitude of its pole, -90 or 90 degrees, the
\* convergence 0 and the scale k0.
C18_ParseAndPole ==
    /\ (made.op = "parseUPS5" /\ made.str = Str00B)
          => /\ made.err = ""
             /\ U.zone = 0 /\ U.pole = "S" /\ U.band = "B"
             /\ U.easting = 2 * One /\ U.northing = 2 * One
    /\ (/\ out.op = "toLatLon" /\ out.unfalse
        /\ U.falsed /\ U.easting = 2 * One /\ U.northing = 2 * One)
          => /\ out.lat2 = (IF U.pole = "S" THEN -Deg(90) ELSE Deg(90))
             /\ out.convergence2 = 0
             /\ out.scale2 = _K0

\* C19: parseUPS5 and Ups raise a UPSError and return no coordinate if the
\* zone is not 0 or the band is neither empty nor one of A, B, Y and Z; the
\* zone 0 with an empty band and the pole N or S is accepted.
C19_ZoneAndBand ==
    made.op \in { "parseUPS5", "Ups" }
        => /\ (made.zone # 0 \/ (made.band # "" /\ made.band \notin { "A", "B", "Y", "Z" }))
                 => (made.err = "UPSError" /\ made.ups = NoUps)
           /\ (made.zone = 0 /\ made.band = "" /\ Upper1(made.pole) \in { "N", "S" })
                 => /\ made.err = "" /\ made.ups # NoUps
                    /\ made.ups.zone = 0 /\ made.ups.band = ""
                    /\ made.ups.pole = Upper1(made.pole)

\* A string with the zone 0 and no band was parsed, and gave a coordinate.
C19_Witness ==
    /\ made.op = "parseUPS5" /\ made.str[1] = << "0", "0" >> /\ made.err = ""
    /\ U.pole = "N" /\ U.band = "" /\ U.easting = One

\* C20: toUps(pole) returns a copy of the coordinate if no pole is given or
\* the pole given spells the pole of the coordinate, and raises a UPSError
\* if it spells the other pole.
C20_SamePole ==
    (made.op = "toUps" /\ U # NoUps)
        => IF made.pole = "" \/ Upper1(made.pole) = U.pole
           THEN made.err = "" /\ made.ups = U
           ELSE made.err = "UPSError"

\* C21: on every ellipsoid, oblate, prolate or spherical, R1 is (2 a + b) / 3
\* and R3 the cube root of a * a * b: its cube lies within one unit of the
\* root around a * a * b.
C21_MeanAndVolumetric ==
    (res.op = "get" /\ res.err = "" /\ E # NoEllipsoid)
        => /\ res.name = "R1" => Val(E._R1) = RDiv(2 * E.a + E.b, 3)
           /\ res.name = "R3"
                => /\ Cube(Val(E._R3) - 1) <= Mul(Sq(E.a), E.b)
                   /\ Mul(Sq(E.a), E.b) <= Cube(Val(E._R3) + 1)

\* C30: eccentricity2nd2 gives what e22 gives, on every ellipsoid.
C30_Alias2nd ==
    (res.op = "get" /\ res.name = "eccentricity2nd2" /\ E # NoEllipsoid)
        => /\ res.err = e22(E).err
           /\ res.err = "" => Val(E._e2) = e22(E).val

\* C29: whenever Ellipsoid(a, b, f_) succeeds with a b above 0 that differs
\* from a by EPS at least, relative to a, the ellipsoid has the b supplied
\* and is no sphere, whatever f_ is.
C29_SuppliedPolarRadius ==
    (/\ res.op = "Ellipsoid" /\ res.err = ""
     /\ res.b # None /\ Val(res.b) > 0
     /\ Abs(Div(res.a - Val(res.b), res.a)) >= EPS)
        => (E.b = Val(res.b) /\ ~isSpherical(E))

\* The latitude of the call of toUps8 seen from the pole of the coordinate it
\* returned.
LatFromPole == IF U.pole = "N" THEN out.lat ELSE -out.lat

\* C25: toUps8 of a latitude that, seen from the pole of the projection, is
\* within the tolerance of 90 degrees gives the false origin as easting and as
\* northing (0 if not falsed), at every longitude, and the scale k0.
C25_AtPole ==
    (out.op = "toUps8" /\ out.err = "" /\ Abs(LatFromPole - Deg(90)) < TOL)
        => /\ U.easting = falsed2(U)[1]
           /\ U.northing = falsed2(U)[2]
           /\ U.scale = Some(_K0)

\* A latitude near the pole, and not the pole, was projected at a longitude
\* off the axes.
C25_Witness ==
    /\ out.op = "toUps8" /\ out.err = ""
    /\ out.lat = 5 - Deg(90) /\ out.lon = Deg(45) /\ out.falsed
    /\ U.pole = "S" /\ U.easting = _Falsing

\* C28: a coordinate made without a band has, after any toLatLon calls, the
\* band and the hemisphere of the position that toLatLon(unfalse=True) gives
\* for the coordinate as it was made.
C28_BandOfPosition ==
    (made.op \in { "Ups", "parseUPS5" } /\ made.err = "" /\ made.band = "" /\ U # NoUps)
        => /\ Ups_band(U, WGS84.obj) = toLatLon(made.ups, TRUE, WGS84.obj).ups.band
           /\ Ups_hemisphere(U, WGS84.obj) = toLatLon(made.ups, TRUE, WGS84.obj).ups.hemisphere

\* What toLatLon(unfalse) gives for the coordinate U without a cached result.
Afresh(unfalse) == toLatLon([U EXCEPT !.latlon = None], unfalse, WGS84.obj)

C26_Rescale0 ==
    /\ [][(out'.op = "rescale0" /\ out'.err = "")
            => IF out'.scale2 # U.scale0
               THEN U' = [U EXCEPT !.scale0 = out'.scale2, !.band = "", !.latlon = None,
                                   !.epsg = None, !.mgrs = None, !.utm = None]
               ELSE U' = U]_vars
    /\ [](out.op = "toLatLon"
            => /\ out.lat2 = Afresh(out.unfalse).lat
               /\ out.lon2 = Afresh(out.unfalse).lon
               /\ out.convergence2 = Afresh(out.unfalse).convergence
               /\ out.scale2 = Afresh(out.unfalse).scale)

\* toLatLon returned what another central scale than k0 gives, for a
\* coordinate whose Utm, MGRS reference and EPSG code were asked for.
C26_Witness ==
    /\ out.op = "toLatLon" /\ out.unfalse /\ U.scale0 # _K0 /\ U.latlon # None
    /\ out.lat2 # toLatLon([U EXCEPT !.latlon = None, !.scale0 = _K0], TRUE, WGS84.obj).lat

\* The fields of an ellipsoid other than the order and the two series.
KsFrame == DOMAIN NoEllipsoid \ { "_KsOrder", "_AlphaKs", "_BetaKs" }

\* A step that leaves a successful assignment of KsOrder as the last series
\* call and reads no property is that assignment.
\* C23: a successful assignment of KsOrder changes nothing of the ellipsoid
\* but the order and the cached AlphaKs and BetaKs (a, b, f, f_ and every
\* other cached field keep their values), and one of the current order
\* changes nothing at all.
C23_KsOrderFrame ==
    [][(ks'.op = "KsOrder" /\ ks'.err = "" /\ res' = res)
          => /\ \A x \in KsFrame : E'[x] = E[x]
             /\ E'._KsOrder = ks'.order
             /\ ks'.order = E._KsOrder => E' = E]_vars

\* The current order was assigned again while both series, the third
\* flattening and other properties were cached.
C23_Witness ==
    /\ ks.op = "KsOrder" /\ ks.err = "" /\ ks.order = E._KsOrder /\ ks.order = 6
    /\ E._AlphaKs # None /\ E._BetaKs # None /\ E._n # None
    /\ E._R1 # None /\ E._e2 # None

\* The sum of the products of the entries of the columns j .. k of the row
\* i of a table, counted from 0, and the powers n**j .. n**k.
RECURSIVE ColumnSum(_, _, _, _, _)
ColumnSum(row, i, j, k, n) ==
    IF j > k THEN 0
    ELSE Mul(row[j - i], fpower(n, j)) + ColumnSum(row, i, j + 1, k, n)

\* C24: at an order k of 4, 6 or 8, AlphaKs and BetaKs are k coefficients,
\* the i-th (from 0) the sum over the columns i+1 .. k of the entry of row i
\* of the table times the power of n of that column.
C24_RowsAgainstPowers ==
    (ks.op \in { "AlphaKs", "BetaKs" } /\ ks.err = "" /\ E # NoEllipsoid)
        => /\ E._KsOrder \in { 4, 6, 8 }
           /\ Len(ks.val) = E._KsOrder
           /\ \A i \in 0 .. E._KsOrder - 1 :
                 ks.val[i + 1]
                     = ColumnSum((IF ks.op = "AlphaKs" THEN _AlphaKs8 ELSE _BetaKs8)[i + 1],
                                 i, i + 1, E._KsOrder, Val(E._n))

\* BetaKs was read at the order 6 on the very flat ellipsoid, where the
\* second coefficient is not what the row gives against n, n**2, ..
C24_Witness ==
    /\ ks.op = "BetaKs" /\ ks.err = "" /\ E._KsOrder = 6 /\ E.f = (3 * One) \div 4
    /\ ks.val[2] # fdot(SubSeq(_BetaKs8[2], 1, 5), fpowers(Val(E._n), 5))

\* What a thread alone reads of an ellipsoid like o with nothing cached.
Single(o, p) == Memo([o EXCEPT !._n = None, !._AlphaKs = None], p)

\* C22: while no thread changes KsOrder, every read of a property computed
\* once returns, however the threads interleave, what a read by one thread
\* alone returns, and a slot that is filled holds that value.
C22_ConcurrentReads ==
    /\ [](E # NoEllipsoid
            => \A p \in Memoized :
                  E[Slot(p)] # None => E[Slot(p)] = Some(Single(E, p).val))
    /\ [][\A t \in Threads :
             (threads'[t].ret # None /\ threads[t].ret = None)
                 => /\ Val(threads'[t].ret).err = Single(E', Val(threads'[t].ret).p).err
                    /\ Val(threads'[t].ret).err = ""
                          => Val(threads'[t].ret).val
                                = Some(Single(E', Val(threads'[t].ret).p).val)]_vars

\* Two threads have read AlphaKs of the same ellipsoid and each has found
\* the slot empty, computed the series and stored it.
C22_Witness ==
    /\ \A t \in Threads :
          /\ threads[t].ret # None
          /\ Val(threads[t].ret).p = "AlphaKs" /\ Val(threads[t].ret).err = ""
    /\ \E t, u \in Threads :
          t # u /\ Val(threads[t].ret).stored /\ Val(threads[u].ret).stored

=============================================================================
